---- MODULE Spec2Model ----
(***************************************************************************)
(* Smart-campus analyzers: space occupancy, footfall, water quality,       *)
(* waste/biogas, parking and greenery recommendation.                      *)
(*                                                                         *)
(* Every analyzer is a synchronous call: the caller invokes one entry      *)
(* point (pc = "idle" -> "done"), which either stores a report or raises,  *)
(* and then takes the result (Return, pc = "done" -> "idle").              *)
(*                                                                         *)
(* Units.  Sensor and soil values are decimal numbers on a grid, kept as   *)
(* scaled integers (the scale is stated at each table).  The greenery      *)
(* score is IEEE-754 double arithmetic in the source (1.0 - 0.4 - 0.2 is   *)
(* not 0.4), so it is kept as an exact binary fixed-point number in units   *)
(* of 2^-56, split in two 28-bit limbs, and every subtraction is rounded   *)
(* to nearest-even at the precision of a double.  The space forecast is a  *)
(* float32 array, kept as whole numbers of 2^-24, and its mean is the      *)
(* float32 sum divided by the count, each step rounded to nearest-even.    *)
(*                                                                         *)
(* The chat panel of the dashboard is a separate component: its sends      *)
(* suspend on a timer and resume later, so several can be under way.       *)
(***************************************************************************)
EXTENDS Integers, Sequences, FiniteSets, TLC

VARIABLES pc, call, report, raised,   \* one caller, one invocation at a time
          registry,                    \* the class-level tables of the analyzers
          fields,                      \* the instance fields of the analyzers
          thread,                      \* concurrent callers: each one's invocation
          chat                         \* the chat panel: its React state and timers

vars == <<pc, call, report, raised, registry, fields, thread, chat>>

\* What a single caller leaves alone, what concurrent callers leave alone,
\* and what the chat panel leaves alone.
shared == <<registry, fields, thread, chat>>
single == <<pc, call, report, raised, chat>>
backend == <<pc, call, report, raised, registry, fields, thread>>

NoReport == [kind |-> "none"]
NoCall == [analyzer |-> "none"]

(***************************************************************************)
(* Small helpers.                                                          *)
(***************************************************************************)
Min(a, b) == IF a < b THEN a ELSE b
Max(a, b) == IF a > b THEN a ELSE b
Abs(a) == IF a < 0 THEN -a ELSE a

\* Python int(): truncation toward zero of num / den, den > 0.
TruncDiv(num, den) == IF num >= 0 THEN num \div den ELSE -((-num) \div den)

\* Python round() to a coarser decimal grid: the multiple of step nearest to
\* x (in units of step), ties to the even multiple.
RoundDiv(x, step) ==
    LET a == Abs(x)
        q == a \div step
        r == a % step
        n == IF 2 * r > step \/ (2 * r = step /\ q % 2 = 1) THEN q + 1 ELSE q
    IN  IF x < 0 THEN -n ELSE n

RECURSIVE SeqSum(_)
SeqSum(s) == IF s = <<>> THEN 0 ELSE Head(s) + SeqSum(Tail(s))

\* dict.get(key, default) on a function whose domain is the set of keys present.
Get(d, key, default) == IF key \in DOMAIN d THEN d[key] ELSE default

\* Truthiness of an Optional[dict] argument: None and the empty dict are falsy.
Truthy(arg) == arg.given /\ DOMAIN arg.map # {}

NoneArg == [given |-> FALSE, map |-> <<>>]
DictArg(m) == [given |-> TRUE, map |-> m]

(***************************************************************************)
(* IEEE-754 doubles in [0, 2), as exact multiples of 2^-56.                 *)
(*   value = (IF neg THEN -1 ELSE 1) * (hi * 2^28 + lo) / 2^56             *)
(***************************************************************************)
TwoP28 == 2^28
TwoP14 == 2^14

FMake(hi, lo) == [neg |-> FALSE, hi |-> hi, lo |-> lo]
FZero == FMake(0, 0)
FOne == FMake(TwoP28, 0)

\* The doubles nearest to the decimal literals of _score_plant.
F04 == FMake(107374182, 107374184)      \* 0.4
F03 == FMake(80530636, 214748364)       \* 0.3
F02 == FMake(53687091, 53687092)        \* 0.2

MagLess(a, b) == a.hi < b.hi \/ (a.hi = b.hi /\ a.lo < b.lo)

MagSub(a, b) ==
    IF a.lo >= b.lo
    THEN [hi |-> a.hi - b.hi, lo |-> a.lo - b.lo]
    ELSE [hi |-> a.hi - b.hi - 1, lo |-> a.lo + TwoP28 - b.lo]

MagAdd(a, b) ==
    IF a.lo + b.lo >= TwoP28
    THEN [hi |-> a.hi + b.hi + 1, lo |-> a.lo + b.lo - TwoP28]
    ELSE [hi |-> a.hi + b.hi, lo |-> a.lo + b.lo]

\* Spacing of the doubles around magnitude m, in units of 2^-56.
Ulp(m) ==
    IF m.hi >= 2^28 THEN 16
    ELSE IF m.hi >= 2^27 THEN 8
    ELSE IF m.hi >= 2^26 THEN 4
    ELSE IF m.hi >= 2^25 THEN 2
    ELSE 1

\* Round an exact magnitude to the nearest double, ties to even.
RoundMag(m) ==
    LET q == Ulp(m)
        r == m.lo % q
        base == m.lo - r
        up == 2 * r > q \/ (2 * r = q /\ (base \div q) % 2 = 1)
        lo2 == IF up THEN base + q ELSE base
    IN  IF lo2 = TwoP28 THEN [hi |-> m.hi + 1, lo |-> 0]
        ELSE [hi |-> m.hi, lo |-> lo2]

\* a - b for a double a and a non-negative double b.
FSub(a, b) ==
    LET signed(neg, m) == [neg |-> neg /\ (m.hi # 0 \/ m.lo # 0), hi |-> m.hi, lo |-> m.lo]
    IN  IF a.neg THEN signed(TRUE, RoundMag(MagAdd(a, b)))
        ELSE IF MagLess(a, b) THEN signed(TRUE, RoundMag(MagSub(b, a)))
        ELSE signed(FALSE, RoundMag(MagSub(a, b)))

FLess(a, b) ==
    IF a.neg /\ ~b.neg THEN TRUE
    ELSE IF ~a.neg /\ b.neg THEN FALSE
    ELSE IF a.neg THEN MagLess(b, a)
    ELSE MagLess(a, b)

FGreater(a, b) == FLess(b, a)
FLeq(a, b) == ~FLess(b, a)

\* max(0, x)
FMax0(x) == IF x.neg THEN FZero ELSE x

\* round(x, 3) of a non-negative double, in thousandths: the exact value
\* times 1000 in 14-bit limbs, rounded to the nearest integer, ties to even.
Round3(x) ==
    LET l0 == x.lo % TwoP14
        l1 == x.lo \div TwoP14
        h0 == x.hi % TwoP14
        h1 == x.hi \div TwoP14
        p0 == l0 * 1000
        p1 == l1 * 1000 + (p0 \div TwoP14)
        p2 == h0 * 1000 + (p1 \div TwoP14)
        p3 == h1 * 1000 + (p2 \div TwoP14)
        n == p3 \div TwoP14
        d3 == p3 % TwoP14
        rest == (p2 % TwoP14) + (p1 % TwoP14) + (p0 % TwoP14)
        half == TwoP14 \div 2
        up == d3 > half \/ (d3 = half /\ rest > 0) \/ (d3 = half /\ rest = 0 /\ n % 2 = 1)
    IN  IF up THEN n + 1 ELSE n

(***************************************************************************)
(* Greenery recommender.                                                   *)
(* pH in hundredths, moisture and nitrogen in tenths, canopy radius in     *)
(* tenths of a metre, areas in 1e-4 square metres.                         *)
(***************************************************************************)
PLANT_DATABASE == <<
    [id |-> "neem", ph_range |-> <<600, 850>>, moisture_range |-> <<300, 700>>,
     nitrogen_range |-> <<100, 800>>, co2_absorption_kg_yr |-> 22, canopy_radius_m |-> 80],
    [id |-> "peepal", ph_range |-> <<550, 800>>, moisture_range |-> <<400, 800>>,
     nitrogen_range |-> <<200, 1000>>, co2_absorption_kg_yr |-> 28, canopy_radius_m |-> 100],
    [id |-> "bamboo", ph_range |-> <<550, 750>>, moisture_range |-> <<500, 900>>,
     nitrogen_range |-> <<300, 1200>>, co2_absorption_kg_yr |-> 35, canopy_radius_m |-> 20],
    [id |-> "ashoka", ph_range |-> <<600, 750>>, moisture_range |-> <<600, 850>>,
     nitrogen_range |-> <<400, 1000>>, co2_absorption_kg_yr |-> 18, canopy_radius_m |-> 50],
    [id |-> "bougainvillea", ph_range |-> <<550, 700>>, moisture_range |-> <<250, 600>>,
     nitrogen_range |-> <<100, 600>>, co2_absorption_kg_yr |-> 5, canopy_radius_m |-> 30],
    [id |-> "tulsi", ph_range |-> <<600, 750>>, moisture_range |-> <<400, 700>>,
     nitrogen_range |-> <<200, 800>>, co2_absorption_kg_yr |-> 1, canopy_radius_m |-> 5],
    [id |-> "areca_palm", ph_range |-> <<600, 700>>, moisture_range |-> <<550, 850>>,
     nitrogen_range |-> <<300, 900>>, co2_absorption_kg_yr |-> 6, canopy_radius_m |-> 20] >>

PlantIdx == 1..Len(PLANT_DATABASE)

\* Variant: the bounds taken as exclusive.
InRange_Exclusive(range, v) == range[1] < v /\ v < range[2]

InRange(range, v) == range[1] <= v /\ v <= range[2]

\* The three attribute checks of _score_plant, with the soil.get defaults
\* (7.0, 50, 50).
PhOk(plant, soil) == InRange(plant.ph_range, Get(soil, "ph", 700))
MoistureOk(plant, soil) == InRange(plant.moisture_range, Get(soil, "moisture_pct", 500))
NitrogenOk(plant, soil) == InRange(plant.nitrogen_range, Get(soil, "nitrogen_ppm", 500))

\* _score_plant: the raw double returned.
score_plant(plant, soil) ==
    LET s0 == FOne
        s1 == IF ~PhOk(plant, soil) THEN FSub(s0, F04) ELSE s0
        s2 == IF ~MoistureOk(plant, soil) THEN FSub(s1, F03) ELSE s1
        s3 == IF ~NitrogenOk(plant, soil) THEN FSub(s2, F02) ELSE s2
    IN  FMax0(s3)

\* Variants: no cutoff at all; the cutoff at 0.3.
PassesCutoff_NoCutoff(score) == FGreater(score, FZero)
PassesCutoff_Low(score) == FGreater(score, F03)
PassesCutoff_High(score) == FGreater(score, FSub(FOne, F02))

\* The cutoff test of recommend: score > 0.4.
PassesCutoff(score) == FGreater(score, F04)

\* The plants that pass the cutoff, in catalog order, each with its rounded
\* suitability_score (thousandths).
scored_plants(soil) ==
    LET keep(i) == PassesCutoff(score_plant(PLANT_DATABASE[i], soil))
        entry(i) == [id |-> PLANT_DATABASE[i].id,
                     idx |-> i,
                     suitability_score |-> Round3(score_plant(PLANT_DATABASE[i], soil))]
        all == [i \in PlantIdx |-> entry(i)]
    IN  SelectSeq(all, LAMBDA e : keep(e.idx))

\* list.sort(key=suitability_score, reverse=True): stable, descending.  An
\* entry lands after the entries with a higher score and after the earlier
\* entries with the same score.
SortDesc(s) ==
    LET before(i) == {j \in 1..Len(s) :
                        \/ s[j].suitability_score > s[i].suitability_score
                        \/ (s[j].suitability_score = s[i].suitability_score /\ j < i)}
    IN  [k \in 1..Len(s) |-> s[CHOOSE i \in 1..Len(s) : Cardinality(before(i)) = k - 1]]

TopK == 5

\* scored_plants is built once, then sorted and cut to the first five.
top_plants(soil) ==
    LET first(sorted) == SubSeq(sorted, 1, Min(TopK, Len(sorted)))
    IN  CHOOSE top \in {first(SortDesc(scored)) : scored \in {scored_plants(soil)}} : TRUE

\* pi to four decimals, times 10^4.
Pi4 == 31416

\* np.pi * canopy_radius_m ** 2, in 1e-4 square metres.
plant_area(plant) == (Pi4 * plant.canopy_radius_m * plant.canopy_radius_m) \div 100

LayoutK == 3

\* _generate_layout: the first three plants, each given 40% of what remains,
\* at least one of each.  Returns the entries in layout order and the
\* remaining area after each entry.
RECURSIVE layout_entries(_, _, _)
layout_entries(plants, k, remaining_area) ==
    IF k > Min(LayoutK, Len(plants)) THEN <<>>
    ELSE LET plant == PLANT_DATABASE[plants[k].idx]
             pa == plant_area(plant)
             count == Max(1, TruncDiv(remaining_area * 4, pa * 10))
             entry == [id |-> plant.id,
                       count |-> count,
                       area_covered_sqm |-> RoundDiv(count * pa, 1000),
                       zone |-> IF k = 1 THEN "Primary" ELSE "Secondary",
                       remaining_after |-> remaining_area - count * pa]
         IN  <<entry>> \o layout_entries(plants, k + 1, remaining_area - count * pa)

generate_layout(plants, area_sqm) == layout_entries(plants, 1, area_sqm * 10000)

\* layout.get(id, {}).get("count", 1)
LayoutCount(layout, id) ==
    IF \E k \in 1..Len(layout) : layout[k].id = id
    THEN layout[CHOOSE k \in 1..Len(layout) : layout[k].id = id].count
    ELSE 1

DefaultArea == 500

\* _maintenance_notes reads plants[0]: an IndexError on an empty list.
MaintenanceRaises(plants) == plants = <<>>

\* area_sqm or 500
area_or_default(area_arg) == IF area_arg = 0 THEN DefaultArea ELSE area_arg

\* recommend: the dict returned, from the locals top_plants and layout.
recommend_report(location, soil, area, top, layout) ==
        [kind |-> "greenery",
         location |-> location,
         area_sqm |-> area,
         soil_analysis |-> soil,
         recommended_plants |-> [k \in 1..Len(top) |->
                                    [id |-> top[k].id, suitability_score |-> top[k].suitability_score]],
         planting_layout |-> layout,
         expected_co2_absorption_kg_yr |->
             SeqSum([k \in 1..Len(top) |->
                        PLANT_DATABASE[top[k].idx].co2_absorption_kg_yr * LayoutCount(layout, top[k].id)])]

(***************************************************************************)
(* Inputs of the greenery recommender.                                     *)
(***************************************************************************)
Locations == {"Z4", "cafeteria", "nowhere"}

Absent == 0 - 1
SoilKeys == {"ph", "moisture_pct", "nitrogen_ppm"}

\* Override values, on and around the catalog's range bounds and far outside.
PhVals == {300, 550, 600, 700, 780, 850, 860}
MoistureVals == {100, 250, 300, 550, 600, 750, 900, 950}
NitrogenVals == {50, 100, 300, 600, 1100, 1200, 1300}

\* Values _simulate_soil_analysis can draw: uniform(5.8, 7.8), (30, 75), (15, 110).
SimPhVals == {580, 600, 700, 780}
SimMoistureVals == {300, 550, 600, 750}
SimNitrogenVals == {150, 300, 600, 1100}

\* area_sqm: None or 0 (both falsy, modelled as 0) or a positive area.
AreaArgs == {0, 10, 200}

SoilDict(ph, moisture, nitrogen) ==
    LET v == [ph |-> ph, moisture_pct |-> moisture, nitrogen_ppm |-> nitrogen]
    IN  [k \in {k2 \in SoilKeys : v[k2] # Absent} |-> v[k]]

GreeneryFinish(location, soil_data, soil, area_arg) ==
    \E top \in {top_plants(soil)} :
    \E layout \in {generate_layout(top, area_or_default(area_arg))} :
        /\ pc' = "done"
        /\ call' = [analyzer |-> "greenery", location |-> location, soil_data |-> soil_data,
                    area_sqm |-> area_arg, soil |-> soil]
        /\ IF MaintenanceRaises(top)
           THEN report' = NoReport /\ raised' = "IndexError"
           ELSE /\ report' = recommend_report(location, soil, area_or_default(area_arg), top, layout)
                /\ raised' = "none"

\* recommend(location, soil_data, area_sqm).  The call record keeps the soil
\* sample the call worked on (the override, or the simulated draw).
GreeneryRecommend ==
    /\ pc = "idle"
    /\ \E location \in Locations, area_arg \in AreaArgs :
         \/ \E ph \in PhVals \cup {Absent}, mo \in MoistureVals \cup {Absent},
               ni \in NitrogenVals \cup {Absent} :
              LET soil_data == DictArg(SoilDict(ph, mo, ni))
              IN  /\ Truthy(soil_data)
                  /\ GreeneryFinish(location, soil_data, soil_data.map, area_arg)
         \/ \E soil_data \in {NoneArg, DictArg(<<>>)} :
            \E ph \in SimPhVals, mo \in SimMoistureVals, ni \in SimNitrogenVals :
              GreeneryFinish(location, soil_data, SoilDict(ph, mo, ni), area_arg)
    /\ UNCHANGED shared

(***************************************************************************)
(* Water analyzer.  Every reading and threshold is in thousandths of its   *)
(* unit.                                                                   *)
(***************************************************************************)
THRESHOLDS ==
    [ph |-> <<6500, 8500>>,
     turbidity_ntu |-> <<0, 4000>>,
     tds_ppm |-> <<0, 500000>>,
     chlorine_ppm |-> <<200, 1000>>,
     flow_rate_lpm |-> <<10000, 500000>>,
     pressure_bar |-> <<1000, 4500>>,
     temperature_c |-> <<5000, 30000>>]

\* The keys of a simulated reading, in the order the dict is built (and so
\* the order _detect_anomalies visits them).
ParamOrder == <<"ph", "turbidity_ntu", "tds_ppm", "chlorine_ppm", "flow_rate_lpm",
                "pressure_bar", "temperature_c">>
Params == {ParamOrder[i] : i \in 1..Len(ParamOrder)}

\* A key with no threshold, which an override map may carry.
ExtraKey == "conductivity_us"
KeyOrder == ParamOrder \o <<ExtraKey>>

ZONES == [Z1 |-> "Academic Block Water Supply",
          Z2 |-> "Hostel Water Supply",
          Z3 |-> "Sports Complex Supply",
          Z4 |-> "Campus Irrigation Network",
          Z5 |-> "Grey Water Recycling Loop"]

\* value < low * 0.7, both sides times 10.
BelowCritical(value, low) == 10 * value < 7 * low
\* Variant: the upper severity edge at 2 x high.
AboveCritical_Double(value, high) == value > 2 * high

\* value > high * 1.5, both sides times 2.
AboveCritical(value, high) == 2 * value > 3 * high

\* Variant: readings below the lower bound are let through.
OutOfRange_AboveOnly(value, low, high) == value > high

\* Variant: a reading on a bound counts as outside.
OutOfRange_Inclusive(value, low, high) == value <= low \/ value >= high

OutOfRange(value, low, high) == value < low \/ value > high

severity_of(value, low, high) ==
    IF BelowCritical(value, low) \/ AboveCritical(value, high) THEN "CRITICAL" ELSE "WARNING"

\* The keys of readings in visiting order.
KeysOf(readings) == SelectSeq(KeyOrder, LAMBDA k : k \in DOMAIN readings)

\* _detect_anomalies
detect_anomalies(readings) ==
    LET keys == SelectSeq(KeysOf(readings),
                          LAMBDA k : /\ k \in DOMAIN THRESHOLDS
                                     /\ OutOfRange(readings[k], THRESHOLDS[k][1], THRESHOLDS[k][2]))
    IN  [i \in 1..Len(keys) |->
            LET low == THRESHOLDS[keys[i]][1]
                high == THRESHOLDS[keys[i]][2]
                value == readings[keys[i]]
            IN  [parameter |-> keys[i],
                 value |-> value,
                 threshold_min |-> low,
                 threshold_max |-> high,
                 deviation |-> Max(Max(low - value, value - high), 0),
                 severity |-> severity_of(value, low, high)]]

CriticalPenalty == 15
WarningPenalty == 7

\* Variant: the upper clamp alone.
Clamp100_NoFloor(x) == Min(100, x)

\* The clamp of _compute_quality_score.
Clamp100(x) == Max(0, Min(100, x))

\* _compute_quality_score
compute_quality_score(anomalies) ==
    Clamp100(100 - SeqSum([i \in 1..Len(anomalies) |->
                              IF anomalies[i].severity = "CRITICAL"
                              THEN CriticalPenalty ELSE WarningPenalty]))

\* Variant: a score of exactly 40 graded F.
quality_grade_StrictD(score) ==
    IF score >= 90 THEN "A"
    ELSE IF score >= 75 THEN "B"
    ELSE IF score >= 60 THEN "C"
    ELSE IF score > 40 THEN "D"
    ELSE "F"

\* _quality_grade
quality_grade(score) ==
    IF score >= 90 THEN "A"
    ELSE IF score >= 75 THEN "B"
    ELSE IF score >= 60 THEN "C"
    ELSE IF score >= 40 THEN "D"
    ELSE "F"

\* _parameter_status
parameter_status(readings) ==
    [k \in DOMAIN readings |->
        IF k \notin DOMAIN THRESHOLDS THEN "OK"
        ELSE IF THRESHOLDS[k][1] <= readings[k] /\ readings[k] <= THRESHOLDS[k][2]
             THEN "OK" ELSE "OUT_OF_RANGE"]

\* Variant: no message when no rule fires.
treatment_recommendations_NoDefault(readings, anomalies) ==
    LET params_out == {anomalies[i].parameter : i \in 1..Len(anomalies)}
    IN  (IF "ph" \in params_out THEN <<"ph: add lime/soda ash">> ELSE <<>>)
        \o (IF "turbidity_ntu" \in params_out
            THEN <<"turbidity: install multimedia sand filter">> ELSE <<>>)
        \o (IF "tds_ppm" \in params_out THEN <<"tds: install RO system">> ELSE <<>>)
        \o (IF "chlorine_ppm" \in params_out THEN <<"chlorine: increase dosing">> ELSE <<>>)

\* _treatment_recommendations: one message per rule that fires, in rule order.
treatment_recommendations(readings, anomalies) ==
    LET params_out == {anomalies[i].parameter : i \in 1..Len(anomalies)}
        r1 == IF "ph" \in params_out
              THEN <<IF readings["ph"] < 6500 THEN "ph: add lime/soda ash"
                     ELSE "ph: add CO2 or acid dosing">>
              ELSE <<>>
        r2 == IF "turbidity_ntu" \in params_out
              THEN <<"turbidity: install multimedia sand filter">> ELSE <<>>
        r3 == IF "tds_ppm" \in params_out THEN <<"tds: install RO system">> ELSE <<>>
        r4 == IF "chlorine_ppm" \in params_out
              THEN <<IF readings["chlorine_ppm"] < 200 THEN "chlorine: increase dosing"
                     ELSE "chlorine: reduce dosage">>
              ELSE <<>>
        recs == r1 \o r2 \o r3 \o r4
    IN  IF recs = <<>> THEN <<"all parameters within acceptable range">> ELSE recs

\* Variant: HIGH from four anomalies on.
risk_level_HighAtFour(anomalies) ==
    IF Len(anomalies) >= 4 THEN "HIGH" ELSE IF Len(anomalies) > 0 THEN "MEDIUM" ELSE "LOW"

\* "HIGH" if len(anomalies) >= 3 else "MEDIUM" if anomalies else "LOW"
risk_level(anomalies) ==
    IF Len(anomalies) >= 3 THEN "HIGH" ELSE IF Len(anomalies) > 0 THEN "MEDIUM" ELSE "LOW"

\* Variant: the score jittered by a term taken from the time of the call.
water_report_Jitter(zone, readings, now) ==
    LET anomalies == detect_anomalies(readings)
        quality_score == Clamp100(compute_quality_score(anomalies) - now)
    IN  [kind |-> "water",
         zone |-> zone,
         zone_name |-> Get(ZONES, zone, zone),
         timestamp |-> now,
         sensor_readings |-> readings,
         quality_score |-> quality_score,
         quality_grade |-> quality_grade(quality_score),
         anomalies_detected |-> Len(anomalies),
         anomalies |-> anomalies,
         parameter_status |-> parameter_status(readings),
         treatment_recommendations |-> treatment_recommendations(readings, anomalies),
         risk_level |-> risk_level(anomalies)]

\* analyze, after the clock is read and the readings are chosen.
water_report(zone, readings, now) ==
    LET anomalies == detect_anomalies(readings)
        quality_score == compute_quality_score(anomalies)
    IN  [kind |-> "water",
         zone |-> zone,
         zone_name |-> Get(ZONES, zone, zone),
         timestamp |-> now,
         sensor_readings |-> readings,
         quality_score |-> quality_score,
         quality_grade |-> quality_grade(quality_score),
         anomalies_detected |-> Len(anomalies),
         anomalies |-> anomalies,
         parameter_status |-> parameter_status(readings),
         treatment_recommendations |-> treatment_recommendations(readings, anomalies),
         risk_level |-> risk_level(anomalies)]

(***************************************************************************)
(* Inputs of the water analyzer.  A reading is chosen by its position with *)
(* respect to the parameter's range: on a bound, one grid step outside it, *)
(* on the 0.7 x low / 1.5 x high severity edge, one step beyond the edge,   *)
(* or at 2.25 x high (9.0 NTU for turbidity).                              *)
(***************************************************************************)
Levels == {"mid", "low", "high", "below", "above", "low_edge", "far_below",
           "high_edge", "far_above", "way_above"}

LevelValue(param, level) ==
    LET low == THRESHOLDS[param][1]
        high == THRESHOLDS[param][2]
    IN  CASE level = "mid" -> (low + high) \div 2
          [] level = "low" -> low
          [] level = "high" -> high
          [] level = "below" -> low - 1
          [] level = "above" -> high + 1
          [] level = "low_edge" -> (7 * low) \div 10
          [] level = "far_below" -> (7 * low) \div 10 - 1
          [] level = "high_edge" -> (3 * high) \div 2
          [] level = "far_above" -> (3 * high) \div 2 + 1
          [] level = "way_above" -> (9 * high) \div 4

\* The first n parameters (in dict order) at level l, the others at level rest.
PrefixReadings(n, l, rest) ==
    [k \in Params |->
        LevelValue(k, IF \E i \in 1..n : ParamOrder[i] = k THEN l ELSE rest)]

\* Every parameter at level base, except parameter p at level l.
FamilyReadings(base, p, l) ==
    [k \in Params |-> LevelValue(k, IF k = p THEN l ELSE base)]

WaterZones == {"Z1", "Z4", "Z5", "Z9"}

\* The decimal grid of each simulated reading (round(x, 2), round(x, 1), ...).
SimStep == [ph |-> 10, turbidity_ntu |-> 10, tds_ppm |-> 100, chlorine_ppm |-> 1,
            flow_rate_lpm |-> 100, pressure_bar |-> 10, temperature_c |-> 100]

\* Draws of uniform(5, 12) and uniform(600, 900), for zones Z4 and Z5.
InjectedTurbidity == {5000, 6000, 6010, 9000, 12000}
InjectedTds == {600000, 750000, 750100, 900000}

\* _simulate_sensor_readings: normal draws, the turbidity draw made
\* non-negative, each rounded to its grid; zones Z4 and Z5 get their
\* turbidity and TDS replaced.
simulate_sensor_readings(zone, draws, turb, tds) ==
    LET base == [k \in Params |->
                    SimStep[k] * RoundDiv(IF k = "turbidity_ntu" THEN Abs(draws[k]) ELSE draws[k],
                                          SimStep[k])]
    IN  IF zone \in {"Z4", "Z5"}
        THEN [base EXCEPT !["turbidity_ntu"] = turb, !["tds_ppm"] = tds]
        ELSE base

\* datetime.now() of two calls: instants of the clock, in call order.
Clock == {1, 2}

\* Variant: the anomalies are dropped when the instance holds a detector.
water_analyze_DetectorGated(self, zone, readings, now) ==
    IF self.has_detector THEN water_report(zone, [k \in {} |-> 0], now)
    ELSE water_report(zone, readings, now)

\* analyze on the instance self: no statement of it reads self.has_detector
\* or self.anomaly_detector.
water_analyze(self, zone, readings, now) == water_report(zone, readings, now)

WaterFinish(zone, sensor_data, readings) ==
    \E now \in Clock :
        /\ pc' = "done"
        /\ call' = [analyzer |-> "water", zone |-> zone, sensor_data |-> sensor_data]
        /\ report' = water_analyze(fields.water, zone, readings, now)
        /\ raised' = "none"

\* analyze(zone, sensor_data) with a sensor override map.
WaterAnalyzeOverride ==
    /\ pc = "idle"
    /\ \E zone \in WaterZones :
         \/ \E base \in Levels, p \in Params, l \in Levels :
              LET sensor_data == DictArg(FamilyReadings(base, p, l))
              IN  WaterFinish(zone, sensor_data, sensor_data.map)
         \/ \E p \in Params, l \in Levels, extra \in BOOLEAN :
              LET m == [k \in {p} \cup (IF extra THEN {ExtraKey} ELSE {}) |->
                           IF k = p THEN LevelValue(p, l) ELSE 1000]
                  sensor_data == DictArg(m)
              IN  WaterFinish(zone, sensor_data, sensor_data.map)
         \/ \E n \in 0..Len(ParamOrder), l \in {"above", "far_above"}, rest \in {"mid", "above"} :
              LET sensor_data == DictArg(PrefixReadings(n, l, rest))
              IN  WaterFinish(zone, sensor_data, sensor_data.map)
    /\ UNCHANGED shared

\* analyze(zone) or analyze(zone, {}): the readings are simulated.
WaterAnalyzeSimulated ==
    /\ pc = "idle"
    /\ \E zone \in WaterZones, sensor_data \in {NoneArg, DictArg(<<>>)} :
       \E p \in Params, l \in Levels :
       \E turb \in InjectedTurbidity, tds \in InjectedTds :
         /\ ~Truthy(sensor_data)
         /\ WaterFinish(zone, sensor_data,
                        simulate_sensor_readings(zone, FamilyReadings("mid", p, l), turb, tds))
    /\ UNCHANGED shared

(***************************************************************************)
(* Parking predictor.  Rates and noise are in thousandths.                 *)
(***************************************************************************)
LOTS == [P1 |-> [name |-> "Main Gate Lot", capacity |-> 500],
         P2 |-> [name |-> "Academic Block Lot", capacity |-> 300],
         P3 |-> [name |-> "Sports Complex Lot", capacity |-> 200],
         P4 |-> [name |-> "Staff Quarters Lot", capacity |-> 150]]

LotOrder == <<"P1", "P2", "P3", "P4">>
LotIds == {LotOrder[i] : i \in 1..Len(LotOrder)}

IsPeak(hour) == 8 <= hour /\ hour <= 18

\* base_rate of the current hour, future_rate of a forecast hour.
base_rate(hour, is_weekend) == IF IsPeak(hour) /\ ~is_weekend THEN 850 ELSE 350
future_rate(hour, is_weekend) == IF IsPeak(hour) /\ ~is_weekend THEN 800 ELSE 300

\* max(0, min(capacity, current_occ))
clamp_occupancy(capacity, occ) == Max(0, Min(capacity, occ))

\* int(capacity * (base_rate + noise)), clamped.
current_occupied(capacity, rate, noise) ==
    clamp_occupancy(capacity, TruncDiv(capacity * (rate + noise), 1000))

\* Variant: FULL at 10 free slots too.
lot_status_InclusiveFull(available, capacity) ==
    IF available <= 10 THEN "FULL"
    ELSE IF 5 * available < capacity THEN "BUSY"
    ELSE "AVAILABLE"

\* "FULL" if available < 10 else "BUSY" if available < capacity * 0.2 else "AVAILABLE"
lot_status(available, capacity) ==
    IF available < 10 THEN "FULL"
    ELSE IF 5 * available < capacity THEN "BUSY"
    ELSE "AVAILABLE"

lot_forecast(capacity, hour, is_weekend, forecast_hours) ==
    [h \in 1..forecast_hours |->
        LET rate == future_rate((hour + h) % 24, is_weekend)
        IN  [time |-> (hour + h) % 24,
             predicted_available |-> capacity - TruncDiv(capacity * rate, 1000),
             occupancy_rate |-> rate]]

lot_result(lid, hour, is_weekend, noise, forecast_hours) ==
    LET capacity == LOTS[lid].capacity
        occ == current_occupied(capacity, base_rate(hour, is_weekend), noise)
        available == capacity - occ
    IN  [lot_name |-> LOTS[lid].name,
         capacity |-> capacity,
         current_occupied |-> occ,
         current_available |-> available,
         occupancy_rate |-> RoundDiv(occ * 1000, capacity),
         status |-> lot_status(available, capacity),
         forecast |-> lot_forecast(capacity, hour, is_weekend, forecast_hours)]

\* round(1 - total_avail / total_cap, 3) if total_cap else 0
campus_occupancy_rate(total_cap, total_avail) ==
    IF total_cap # 0 THEN RoundDiv((total_cap - total_avail) * 1000, total_cap) ELSE 0

\* _recommendations
parking_recommendations(results) ==
    LET order == SelectSeq(LotOrder, LAMBDA l : l \in DOMAIN results)
        full_lots == SelectSeq(order, LAMBDA l : results[l].status = "FULL")
        available_lots == SelectSeq(order, LAMBDA l : results[l].status = "AVAILABLE")
    IN  (IF full_lots # <<>>
         THEN <<[msg |-> "lots are FULL, redirect", full |-> full_lots, to |-> available_lots]>>
         ELSE <<>>)
        \o <<[msg |-> "enable dynamic slot display"], [msg |-> "add EV charging and cycle parking"]>>

\* get_availability
parking_report(lot_id, forecast_hours, hour, is_weekend, noise) ==
    LET queried == IF lot_id = "all" THEN LotIds ELSE {lot_id} \cap LotIds
        results == [l \in queried |-> lot_result(l, hour, is_weekend, noise[l], forecast_hours)]
        order == SelectSeq(LotOrder, LAMBDA l : l \in queried)
        total_cap == SeqSum([i \in 1..Len(order) |-> LOTS[order[i]].capacity])
        total_avail == SeqSum([i \in 1..Len(order) |-> results[order[i]].current_available])
    IN  [kind |-> "parking",
         campus_summary |-> [total_capacity |-> total_cap,
                             total_available |-> total_avail,
                             occupancy_rate |-> campus_occupancy_rate(total_cap, total_avail)],
         lots |-> results,
         recommendations |-> parking_recommendations(results)]

(***************************************************************************)
(* Inputs of the parking predictor.                                        *)
(***************************************************************************)
\* Draws of normal(0, 0.05): they put lot P1 at 0, 9, 10, 99, 100 free
\* slots on a weekday peak hour, and beyond both ends of the clamp.
ParkingNoise == {0 - 1000, 0 - 50, 0 - 48, 130, 132, 200}

\* Hours of the day of the call: before, inside and after the peak window.
Hours == {7, 18, 23}

MaxForecastHours == 2

LotArgs == {"all", "P1", "P4", "P9"}

ParkingGetAvailability ==
    /\ pc = "idle"
    /\ \E lot_id \in LotArgs, forecast_hours \in 0..MaxForecastHours,
          hour \in Hours, is_weekend \in BOOLEAN :
       \E base \in ParkingNoise, other \in LotIds, n \in ParkingNoise :
         LET noise == [l \in LotIds |-> IF l = other THEN n ELSE base]
         IN  /\ pc' = "done"
             /\ call' = [analyzer |-> "parking", lot_id |-> lot_id,
                         forecast_hours |-> forecast_hours]
             /\ report' = parking_report(lot_id, forecast_hours, hour, is_weekend, noise)
             /\ raised' = "none"
    /\ UNCHANGED shared

(***************************************************************************)
(* Waste predictor.  Daily masses are kept exactly: total waste in 1e-2   *)
(* kg, biodegradable mass in 1e-4 kg, biogas in 1e-5 m3.  Reported fields  *)
(* are in the unit of their rounding (tenths or hundredths).               *)
(***************************************************************************)
AREA_PROFILES ==
    [cafeteria |-> [daily_kg_baseline |-> 250, biodegradable_pct |-> 78],
     hostels |-> [daily_kg_baseline |-> 180, biodegradable_pct |-> 65],
     academic_block |-> [daily_kg_baseline |-> 40, biodegradable_pct |-> 45],
     sports_complex |-> [daily_kg_baseline |-> 30, biodegradable_pct |-> 55],
     campus_wide |-> [daily_kg_baseline |-> 600, biodegradable_pct |-> 68]]

\* BIOGAS_YIELD_M3_PER_KG, in tenths.
BIOGAS_YIELD_M3_PER_KG == 4

\* Variant: the summary's biogas from a yield of 0.5 m3 per kg.
total_biogas_HalfYield(total_biodegradable) == total_biodegradable * 5

\* total_biogas = total_biodegradable * BIOGAS_YIELD_M3_PER_KG
total_biogas_of(total_biodegradable) == total_biodegradable * BIOGAS_YIELD_M3_PER_KG

\* area.lower().replace(" ", "_") on the area strings of the model.
NormalizedArea ==
    [cafeteria |-> "cafeteria", Cafeteria |-> "cafeteria", hostels |-> "hostels",
     academic_block |-> "academic_block", campus_wide |-> "campus_wide"]
    @@ ("Sports Complex" :> "sports_complex") @@ ("moon base" :> "moon_base")

WasteAreas == DOMAIN NormalizedArea

area_profile(area) == Get(AREA_PROFILES, NormalizedArea[area], AREA_PROFILES["campus_wide"])

\* x * mul / step rounded to the nearest integer, ties to even, without
\* forming x * mul.
RoundMulDiv(x, mul, step) ==
    LET a == x \div step
        t == (x % step) * mul
        n0 == a * mul + (t \div step)
        r == t % step
    IN  IF 2 * r > step \/ (2 * r = step /\ n0 % 2 = 1) THEN n0 + 1 ELSE n0

\* One pass of the loop of predict: day d with noise draw n (percent).
daily_total(profile, is_weekend, n) ==
    (profile.daily_kg_baseline \div 10) * (IF is_weekend THEN 6 ELSE 10) * (100 + n)
daily_bio(profile, total) == total * profile.biodegradable_pct
daily_biogas(bio) == bio * BIOGAS_YIELD_M3_PER_KG

daily_forecast(profile, weekday, n) ==
    LET total == daily_total(profile, weekday >= 5, n)
        bio == daily_bio(profile, total)
        biogas == daily_biogas(bio)
    IN  [weekday |-> weekday,
         total_waste_kg |-> RoundDiv(total, 10),
         biodegradable_kg |-> RoundDiv(bio, 1000),
         recyclable_kg |-> RoundDiv(total * 20, 1000),
         residual_kg |-> RoundDiv(total * 12, 1000),
         biogas_yield_m3 |-> RoundDiv(biogas, 1000),
         biogas_energy_kwh |-> RoundMulDiv(biogas, 55, 10000)]

\* _optimize_collection_schedule, on the rounded daily totals (tenths of kg).
collection_schedule(forecasts) ==
    [i \in 1..Len(forecasts) |->
        [collection_frequency |->
             IF forecasts[i].total_waste_kg > 4000 THEN "2x daily"
             ELSE IF forecasts[i].total_waste_kg > 2000 THEN "Daily"
             ELSE "Every 2 days",
         priority |-> IF forecasts[i].total_waste_kg > 4000 THEN "HIGH" ELSE "NORMAL"]]

\* predict
waste_report(area, waste_type, days, weekday0, noise) ==
    LET profile == area_profile(area)
        wd(d) == (weekday0 + d - 1) % 7
        totals == [d \in 1..days |-> daily_total(profile, wd(d) >= 5, noise[d])]
        bios == [d \in 1..days |-> daily_bio(profile, totals[d])]
        forecasts == [d \in 1..days |-> daily_forecast(profile, wd(d), noise[d])]
        total_waste == SeqSum(totals)
        total_biodegradable == SeqSum(bios)
        total_biogas == total_biogas_of(total_biodegradable)
    IN  [kind |-> "waste",
         area |-> area,
         waste_type |-> waste_type,
         forecast_days |-> days,
         summary |-> [total_waste_kg |-> RoundDiv(total_waste, 10),
                      total_biodegradable_kg |-> RoundDiv(total_biodegradable, 1000),
                      biodegradable_percentage |-> profile.biodegradable_pct * 10,
                      total_biogas_m3 |-> RoundDiv(total_biogas, 10000),
                      total_energy_kwh |-> RoundMulDiv(total_biogas, 55, 100000),
                      co2_offset_kg |-> RoundMulDiv(total_biogas, 19, 100000)],
         daily_forecasts |-> forecasts,
         collection_schedule |-> collection_schedule(forecasts)]

\* Draws of normal(0, 0.08), in percent.
WasteNoise == {0 - 16, 0, 3, 8}

MaxDays == 3

WastePredict ==
    /\ pc = "idle"
    /\ \E area \in WasteAreas, days \in 0..MaxDays, weekday0 \in 0..6 :
       \E noise \in [1..days -> WasteNoise] :
         /\ pc' = "done"
         /\ call' = [analyzer |-> "waste", area |-> area, days |-> days]
         /\ report' = waste_report(area, "biodegradable", days, weekday0, noise)
         /\ raised' = "none"
    /\ UNCHANGED shared

(***************************************************************************)
(* Space utilization predictor.  The network's outputs are float32 values  *)
(* in [0, 1], written as whole numbers of 2^-24: every integer of 0..2^24  *)
(* is such a value, and so is every float32 sum of such values.            *)
(***************************************************************************)
\* output_steps of OccupancyLSTM: the length of the model's output vector.
OutputSteps == 24

\* 1.0 in units of 2^-24.
F32One == 2^24

\* np.clip(x, 0, 1)
clip01(x) == Max(0, Min(F32One, x))

\* np.clip(predictions[:hours], 0, 1)
clipped_predictions(raw, hours) ==
    [i \in 1..Min(hours, Len(raw)) |-> clip01(raw[i])]

\* The float32 nearest to the exact sum s: 24 significant bits, ties to even.
f32_nearest(s) ==
    LET g == CHOOSE d \in {1, 2, 4, 8, 16, 32} :
                 s < F32One * d /\ (d = 1 \/ s >= F32One * (d \div 2))
        q == s \div g
        r == s % g
    IN  IF 2 * r > g \/ (2 * r = g /\ q % 2 = 1) THEN (q + 1) * g ELSE q * g

\* One float32 addition.
f32_add(a, b) == CHOOSE r \in {f32_nearest(s) : s \in {a + b}} : TRUE

\* res += a[i] for i = from, from + step, ... up to last.
RECURSIVE f32_running(_, _, _, _, _)
f32_running(xs, i, step, last, res) ==
    IF i > last THEN res
    ELSE f32_running(xs, i + step, step, last, f32_add(res, xs[i]))

\* The float32 sum np.mean accumulates (numpy's pairwise sum of a block of
\* fewer than 128 elements): below 8 elements one running sum from zero;
\* otherwise eight running sums over the elements 8 apart, added up in
\* pairs, then the elements past the last multiple of 8 one by one.
np_sum(xs) ==
    LET n == Len(xs)
        body == n - (n % 8)
        lane(k) == f32_running(xs, k + 8, 8, body, xs[k])
        lanes == f32_add(f32_add(f32_add(lane(1), lane(2)), f32_add(lane(3), lane(4))),
                         f32_add(f32_add(lane(5), lane(6)), f32_add(lane(7), lane(8))))
    IN  IF n < 8 THEN f32_running(xs, 1, 1, n, 0)
        ELSE f32_running(xs, body + 1, 1, n, lanes)

\* The float32 nearest to s / n, as the pair (num, den): num / den units,
\* den the power of two that brings the quotient to 24 significant bits.
f32_div(s, n) ==
    IF s = 0 THEN [num |-> 0, den |-> 1]
    ELSE LET t == (F32One \div 2) * n
             den == CHOOSE d \in {2^i : i \in 0..28} :
                        /\ s >= (t + d - 1) \div d
                        /\ d = 1 \/ s < (t + (d \div 2) - 1) \div (d \div 2)
             q == (s * den) \div n
             r == (s * den) % n
         IN  [num |-> IF 2 * r > n \/ (2 * r = n /\ q % 2 = 1) THEN q + 1 ELSE q,
              den |-> den]

\* np.mean of a float32 array: the float32 sum divided by the count.
np_mean(xs) == CHOOSE m \in {f32_div(s, Len(xs)) : s \in {np_sum(xs)}} : TRUE

\* np.argmax / np.argmin: the first index holding the extreme value.
argmax(xs) == CHOOSE i \in 1..Len(xs) :
                 /\ \A j \in 1..Len(xs) : xs[j] <= xs[i]
                 /\ \A j \in 1..(i - 1) : xs[j] < xs[i]
argmin(xs) == CHOOSE i \in 1..Len(xs) :
                 /\ \A j \in 1..Len(xs) : xs[j] >= xs[i]
                 /\ \A j \in 1..(i - 1) : xs[j] > xs[i]

\* avg > bound and avg < bound for the mean (num, den) and a bound of
\* whole units plus tenths of a unit.
MeanAbove(avg, units, tenths) == avg.num > units * avg.den + (tenths * avg.den) \div 10
MeanBelow(avg, units, tenths) ==
    avg.num < units * avg.den + (tenths * avg.den + 9) \div 10

\* _generate_recommendations of the space predictor.  In units of 2^-24,
\* 0.9 is 15099494.4, 0.75 is 12582912 and 0.4 is 6710886.4.
space_recommendations(predictions, space_type) ==
    LET avg == np_mean(predictions)
        peak == predictions[argmax(predictions)]
    IN  (IF peak > 15099494 THEN <<"HIGH ALERT: overflow routing">> ELSE <<>>)
        \o (IF MeanAbove(avg, 12582912, 0) THEN <<"average utilization is high">> ELSE <<>>)
        \o (IF space_type \in {"classroom", "lab"} /\ MeanBelow(avg, 6710886, 4)
            THEN <<"underutilized space">> ELSE <<>>)
        \o (IF space_type = "parking" THEN <<"consider dynamic pricing">> ELSE <<>>)
        \o <<"prediction generated on device">>

\* predict raises when the clipped prediction vector is empty (np.argmax
\* of an empty array).
predict_raises(hours) == hours = 0

\* predict, for hours >= 1.  Times are hour offsets from now.
space_report(location, hours, space_type, raw) ==
    LET predictions == clipped_predictions(raw, hours)
        timestamps == [i \in 1..hours |-> i - 1]
        peak_idx == argmax(predictions)
        low_idx == argmin(predictions)
    IN  [kind |-> "space",
         location |-> location,
         space_type |-> space_type,
         forecast_hours |-> hours,
         current_occupancy |-> predictions[1],
         average_occupancy |-> np_mean(predictions),
         peak_time |-> timestamps[peak_idx],
         peak_occupancy |-> predictions[peak_idx],
         low_time |-> timestamps[low_idx],
         low_occupancy |-> predictions[low_idx],
         hourly_forecast |-> [i \in 1..Min(Len(timestamps), Len(predictions)) |->
                                 [time |-> timestamps[i], occupancy |-> predictions[i]]],
         recommendations |-> space_recommendations(predictions, space_type)]

(***************************************************************************)
(* Inputs of the space predictor.                                          *)
(***************************************************************************)
\* Sigmoid outputs of the network: within [0, 1], the ends included (a
\* float32 sigmoid saturates): 0, and the float32 values of 0.3, 0.8, 0.95
\* and 1.
SigmoidVals == {0, 5033165, 13421773, 15938355, F32One}

\* Steps of the output vector that may differ from the rest.
OddSteps == {1, 2, OutputSteps}

\* Forecast horizons: 0 .. MaxHours, beyond the 24 output steps.
MaxHours == 26

SpaceTypes == {"all", "classroom", "parking"}

SpacePredict ==
    /\ pc = "idle"
    /\ \E hours \in 0..MaxHours, space_type \in SpaceTypes :
       \E base \in SigmoidVals, odd \in OddSteps, v \in SigmoidVals :
         LET raw == [i \in 1..OutputSteps |-> IF i = odd THEN v ELSE base]
         IN  /\ pc' = "done"
             /\ call' = [analyzer |-> "space", location |-> "Block-A", hours |-> hours,
                         space_type |-> space_type]
             /\ IF predict_raises(hours)
                THEN report' = NoReport /\ raised' = "ValueError"
                ELSE report' = space_report("Block-A", hours, space_type, raw) /\ raised' = "none"
    /\ UNCHANGED shared

(***************************************************************************)
(* Footfall analyzer.  Flow multipliers are in hundredths, the noise of a *)
(* zone in thousandths of its base flow.                                   *)
(***************************************************************************)
CAMPUS_ZONES ==
    [main_gate |-> [name |-> "Main Gate Entrance", capacity_pph |-> 800],
     academic_block |-> [name |-> "Academic Block Corridor", capacity_pph |-> 1200],
     cafeteria |-> [name |-> "Cafeteria Junction", capacity_pph |-> 600],
     library |-> [name |-> "Library Entrance", capacity_pph |-> 400],
     sports_complex |-> [name |-> "Sports Complex Access Road", capacity_pph |-> 500],
     hostel_road |-> [name |-> "Hostel Access Road (Shared)", capacity_pph |-> 350]]

ZoneOrder == <<"main_gate", "academic_block", "cafeteria", "library", "sports_complex",
               "hostel_road">>
ZoneIds == {ZoneOrder[i] : i \in 1..Len(ZoneOrder)}

shared_zones == {"hostel_road", "sports_complex", "main_gate"}

\* _get_time_label
get_time_label(hour) ==
    IF 6 <= hour /\ hour < 12 THEN "morning"
    ELSE IF 12 <= hour /\ hour < 17 THEN "afternoon"
    ELSE IF 17 <= hour /\ hour < 21 THEN "evening"
    ELSE "night"

multipliers == [morning |-> 95, afternoon |-> 70, evening |-> 85, night |-> 10]

\* _simulate_flow: max(0, int(base_flow + noise))
current_pph(zone_id, time_label, noise) ==
    LET base_multiplier == Get(multipliers, time_label, 50)
    IN  Max(0, TruncDiv(CAMPUS_ZONES[zone_id].capacity_pph * base_multiplier * (1000 + noise),
                       100000))

\* utilization > bound, for a bound in hundredths.
UtilizationAbove(pph, capacity, bound) == 100 * pph > bound * capacity

is_clog_Inclusive(pph, capacity) == 100 * pph >= 85 * capacity
is_clog(pph, capacity) == UtilizationAbove(pph, capacity, 85)

\* _detect_conflict: does the zone report a conflict (the kind is drawn).
has_conflict(zone_id, pph, capacity) ==
    zone_id \in shared_zones /\ UtilizationAbove(pph, capacity, 70)

zones_to_analyze(zone) ==
    IF zone = "all" THEN ZoneOrder
    ELSE IF zone \in ZoneIds THEN <<zone>>
    ELSE ZoneOrder

zone_detail(zid, time_label, noise, conflict) ==
    LET capacity == CAMPUS_ZONES[zid].capacity_pph
        pph == current_pph(zid, time_label, noise)
        conflict_type == IF has_conflict(zid, pph, capacity) THEN conflict ELSE "None"
    IN  [zone |-> zid,
         name |-> CAMPUS_ZONES[zid].name,
         current_pph |-> pph,
         capacity_pph |-> capacity,
         utilization |-> RoundDiv(pph * 100, capacity),
         pedestrian_vehicular_conflict |-> conflict_type # "None",
         conflict_type |-> conflict_type,
         is_clog_point |-> is_clog(pph, capacity),
         severity |-> IF UtilizationAbove(pph, capacity, 100) THEN "CRITICAL" ELSE "HIGH"]

\* _generate_recommendations of the footfall analyzer.
footfall_recommendations(clog_points) ==
    (IF clog_points = <<>> THEN <<[msg |-> "no critical clog points"]>> ELSE <<>>)
    \o [i \in 1..Min(3, Len(clog_points)) |->
           [msg |-> "zone at capacity", zone |-> clog_points[i].zone,
            severity |-> clog_points[i].severity, conflict |-> clog_points[i].conflict_type]]
    \o <<[msg |-> "stagger class timings"], [msg |-> "install footfall counters"]>>

\* _infrastructure_suggestions
infrastructure_suggestions(clog_points) ==
    (IF \E i \in 1..Len(clog_points) :
           clog_points[i].conflict_type = "Pedestrians crossing vehicle lane"
     THEN <<"install skywalks or underpasses">> ELSE <<>>)
    \o <<"adaptive traffic signals", "segregated pedestrian corridors",
         "crowd density app", "widen bottleneck corridors">>

\* analyze
footfall_report(zone, time_label, noise, conflict) ==
    LET zones == zones_to_analyze(zone)
        details == [i \in 1..Len(zones) |-> zone_detail(zones[i], time_label, noise[zones[i]],
                                                        conflict[zones[i]])]
        clogs == SelectSeq(details, LAMBDA d : d.is_clog_point)
        clog_points == [i \in 1..Len(clogs) |->
                           [zone |-> clogs[i].zone, name |-> clogs[i].name,
                            severity |-> clogs[i].severity,
                            utilization |-> clogs[i].utilization,
                            conflict_type |-> clogs[i].conflict_type]]
    IN  [kind |-> "footfall",
         time_of_day |-> time_label,
         zones_analyzed |-> Len(zones),
         clog_points_detected |-> Len(clog_points),
         clog_points |-> clog_points,
         zone_details |-> [z \in {zones[i] : i \in 1..Len(zones)} |->
                              LET d == details[CHOOSE i \in 1..Len(zones) : zones[i] = z]
                              IN  [name |-> d.name, current_pph |-> d.current_pph,
                                   capacity_pph |-> d.capacity_pph,
                                   utilization |-> d.utilization,
                                   pedestrian_vehicular_conflict |-> d.pedestrian_vehicular_conflict,
                                   conflict_type |-> d.conflict_type,
                                   is_clog_point |-> d.is_clog_point]],
         recommendations |-> footfall_recommendations(clog_points),
         infrastructure_suggestions |-> infrastructure_suggestions(clog_points)]

(***************************************************************************)
(* Inputs of the footfall analyzer.                                        *)
(***************************************************************************)
\* Draws of normal(0, 0.1 * base_flow), in thousandths of the base flow.
FootfallNoise == {0 - 200, 0, 53, 200}

Conflicts == {"Pedestrians crossing vehicle lane",
              "Mixed pedestrian-vehicle at intersection",
              "Delivery vehicle blocking pedestrian path"}

FootfallZoneArgs == {"all", "library", "main_gate", "helipad"}

\* time_of_day: None (the label comes from the clock) or a label, known or not.
TimeArgs == {"None", "afternoon", "dusk"}

\* Variant: no clog point is reported when the instance holds a detector.
footfall_analyze_DetectorGated(self, zone, time_label, noise, conflict) ==
    IF self.has_detector
    THEN footfall_report(zone, time_label, [z \in ZoneIds |-> 0 - 1000], conflict)
    ELSE footfall_report(zone, time_label, noise, conflict)

\* analyze on the instance self: no statement of it reads self.has_detector
\* or self.detector.
footfall_analyze(self, zone, time_label, noise, conflict) ==
    footfall_report(zone, time_label, noise, conflict)

FootfallAnalyze ==
    /\ pc = "idle"
    /\ \E zone \in FootfallZoneArgs, time_of_day \in TimeArgs, hour \in Hours :
       \E base \in FootfallNoise, other \in ZoneIds, n \in FootfallNoise :
       \E c1 \in Conflicts, c2 \in Conflicts :
         LET time_label == IF time_of_day = "None" THEN get_time_label(hour) ELSE time_of_day
             noise == [z \in ZoneIds |-> IF z = other THEN n ELSE base]
             conflict == [z \in ZoneIds |-> IF z = "main_gate" THEN c1 ELSE c2]
         IN  /\ time_of_day # "None" => hour = 7
             /\ pc' = "done"
             /\ call' = [analyzer |-> "footfall", zone |-> zone, time_of_day |-> time_of_day,
                         noise |-> noise, conflict |-> conflict]
             /\ report' = footfall_analyze(fields.footfall, zone, time_label, noise, conflict)
             /\ raised' = "none"
    /\ UNCHANGED shared

(***************************************************************************)
(* The caller takes the result; the analyzer is ready for the next call.   *)
(***************************************************************************)
Return ==
    /\ pc = "done"
    /\ pc' = "idle"
    /\ call' = NoCall
    /\ report' = NoReport
    /\ raised' = "none"
    /\ UNCHANGED shared

(***************************************************************************)
(* The chat panel.  chat.messages is the messages state, chat.input the   *)
(* input state, chat.loading the loading state; chat.timers holds the     *)
(* sendMessage calls suspended at their await, in the order the timers    *)
(* were set, each with the time left on its timer.  The send field of a   *)
(* message is not in the source: it numbers the sendMessage call that     *)
(* appended the message.                                                   *)
(***************************************************************************)
Greeting == [role |-> "assistant", content |-> "Hello! I'm UrbanAI", send |-> 0]

QUICK_PROMPTS ==
    {"Where are the clog points on campus?",
     "Predict parking availability this afternoon",
     "Recommend plants for Block A courtyard",
     "Is water quality OK in the hostels?"}

\* What the user may type into the input box.
TypedTexts == {"", "   ", "hello", "Park by the water plant"}

\* String.trim on the typed texts.
trim(text) == IF text = "   " THEN "" ELSE text

\* The keywords lower.includes finds in each text.
Keywords ==
    ("Where are the clog points on campus?" :> {"clog"})
    @@ ("Predict parking availability this afternoon" :> {"park"})
    @@ ("Recommend plants for Block A courtyard" :> {"plant"})
    @@ ("Is water quality OK in the hostels?" :> {"water"})
    @@ ("hello" :> {})
    @@ ("Park by the water plant" :> {"park", "water", "plant"})

\* The reply sendMessage picks for msg.
reply_for(msg) ==
    LET includes(kw) == kw \in Keywords[msg]
    IN  IF includes("clog") \/ includes("footfall") THEN "3 clog points detected"
        ELSE IF includes("park") THEN "Parking Forecast"
        ELSE IF includes("plant") \/ includes("green") THEN "Top 3 Plants"
        ELSE IF includes("water") THEN "Hostel Water Quality"
        ELSE "I've analyzed the campus data"

\* setTimeout(r, 1200 + Math.random() * 800), in steps of 400 ms.
Delays == {3, 4}

MaxSends == 3

UserMessages(messages) == SelectSeq(messages, LAMBDA m : m.role = "user")

\* sendMessage up to its await, for a non-empty msg.
send_message(msg) ==
    LET n == Len(UserMessages(chat.messages)) + 1
    IN  /\ n <= MaxSends
        /\ \E delay \in Delays :
              chat' = [input |-> "",
                       messages |-> Append(chat.messages,
                                           [role |-> "user", content |-> msg, send |-> n]),
                       loading |-> TRUE,
                       timers |-> Append(chat.timers,
                                         [msg |-> msg, send |-> n, remaining |-> delay])]

\* onChange of the input box.
ChatType ==
    /\ \E text \in TypedTexts :
         /\ text # chat.input
         /\ chat' = [chat EXCEPT !.input = text]
    /\ UNCHANGED backend

\* Enter, or the arrow button: sendMessage() with no text; an empty
\* input.trim() returns at once.
ChatSendInput ==
    /\ IF trim(chat.input) = "" THEN UNCHANGED chat
       ELSE send_message(trim(chat.input))
    /\ UNCHANGED backend

\* A quick-prompt button: sendMessage(p).
ChatSendPrompt ==
    /\ \E p \in QUICK_PROMPTS : send_message(p)
    /\ UNCHANGED backend

\* 400 ms pass with no timer due.
ChatTick ==
    /\ chat.timers # <<>>
    /\ \A i \in 1..Len(chat.timers) : chat.timers[i].remaining > 0
    /\ chat' = [chat EXCEPT !.timers =
                    [i \in 1..Len(chat.timers) |->
                        [chat.timers[i] EXCEPT !.remaining = @ - 1]]]
    /\ UNCHANGED backend

\* The earliest-set timer that is due fires, and its sendMessage resumes
\* after the await: it appends the reply and clears loading.
ChatResume ==
    /\ \E i \in 1..Len(chat.timers) :
         /\ chat.timers[i].remaining = 0
         /\ \A j \in 1..(i - 1) : chat.timers[j].remaining > 0
         /\ chat' = [chat EXCEPT
                !.messages = Append(@, [role |-> "assistant",
                                        content |-> reply_for(chat.timers[i].msg),
                                        send |-> chat.timers[i].send]),
                !.loading = FALSE,
                !.timers = SubSeq(@, 1, i - 1) \o SubSeq(@, i + 1, Len(@))]
    /\ UNCHANGED backend

\* useState of ChatPanel.
ChatInit == [input |-> "", messages |-> <<Greeting>>, loading |-> FALSE, timers |-> <<>>]

ChatNext ==
    \/ ChatType
    \/ ChatSendInput
    \/ ChatSendPrompt
    \/ ChatTick
    \/ ChatResume

\* The class attributes, as they stand when the classes are defined.
Registries ==
    [LOTS |-> LOTS, CAMPUS_ZONES |-> CAMPUS_ZONES, THRESHOLDS |-> THRESHOLDS,
     ZONES |-> ZONES, AREA_PROFILES |-> AREA_PROFILES, PLANT_DATABASE |-> PLANT_DATABASE]

\* The instance fields set by the constructors (no optional detector
\* library, no GPU).
InstanceFields ==
    [water |-> [built |-> TRUE, has_detector |-> FALSE],
     footfall |-> [built |-> TRUE, has_detector |-> FALSE],
     space |-> [device |-> "cpu"]]

MaxThreads == 2
Threads == 1..MaxThreads

IdleThread == [pc |-> "idle"]

Init ==
    /\ pc = "idle"
    /\ call = NoCall
    /\ report = NoReport
    /\ raised = "none"
    /\ registry = Registries
    /\ fields = InstanceFields
    /\ thread = [t \in Threads |-> IdleThread]
    /\ chat = ChatInit

Next ==
    \/ GreeneryRecommend
    \/ WaterAnalyzeOverride
    \/ WaterAnalyzeSimulated
    \/ ParkingGetAvailability
    \/ WastePredict
    \/ SpacePredict
    \/ FootfallAnalyze
    \/ Return

Spec == Init /\ [][Next]_vars

\* The chat panel on its own.
ChatSpec == Init /\ [][ChatNext]_vars

(***************************************************************************)
(* The constructors of the water and the footfall analyzer, with the       *)
(* optional detector library present or not, and the calls on the          *)
(* instances they build.                                                   *)
(***************************************************************************)
NoInstance == [built |-> FALSE]

\* _init_anomaly_detector: the import of IsolationForest works, or it
\* raises ImportError, which is caught.
init_anomaly_detector(importable) == [built |-> TRUE, has_detector |-> importable]

\* _load_models: the import of YOLO and the load of its weights work, or
\* they raise, and every Exception is caught.
load_models(loadable) == [built |-> TRUE, has_detector |-> loadable]

\* WaterAnalyzer()
WaterConstruct ==
    /\ pc = "idle"
    /\ \E importable \in BOOLEAN :
         /\ fields' = [fields EXCEPT !.water = init_anomaly_detector(importable)]
         /\ call' = [analyzer |-> "WaterAnalyzer", library |-> importable]
    /\ pc' = "done"
    /\ report' = NoReport
    /\ raised' = "none"
    /\ UNCHANGED <<registry, thread, chat>>

\* FootfallAnalyzer()
FootfallConstruct ==
    /\ pc = "idle"
    /\ \E loadable \in BOOLEAN :
         /\ fields' = [fields EXCEPT !.footfall = load_models(loadable)]
         /\ call' = [analyzer |-> "FootfallAnalyzer", library |-> loadable]
    /\ pc' = "done"
    /\ report' = NoReport
    /\ raised' = "none"
    /\ UNCHANGED <<registry, thread, chat>>

\* A call of analyze needs an instance.
DetectorWaterAnalyze ==
    /\ fields.water.built
    /\ (WaterAnalyzeOverride \/ WaterAnalyzeSimulated)

DetectorFootfallAnalyze ==
    /\ fields.footfall.built
    /\ FootfallAnalyze

DetectorInit ==
    /\ pc = "idle"
    /\ call = NoCall
    /\ report = NoReport
    /\ raised = "none"
    /\ registry = Registries
    /\ fields = [water |-> NoInstance, footfall |-> NoInstance, space |-> [device |-> "cpu"]]
    /\ thread = [t \in Threads |-> IdleThread]
    /\ chat = ChatInit

DetectorNext ==
    \/ WaterConstruct
    \/ FootfallConstruct
    \/ DetectorWaterAnalyze
    \/ DetectorFootfallAnalyze
    \/ Return

DetectorSpec == DetectorInit /\ [][DetectorNext]_vars

(***************************************************************************)
(* The stages of one invocation, for the water and the footfall analyzer.  *)
(* pc names the stage that ran last; report holds the locals of the call   *)
(* (a frame) until the dict is returned.                                   *)
(***************************************************************************)
IsWaterCall == call.analyzer = "water"
IsFootfallCall == call.analyzer = "footfall"

\* analyze: entry, the clock is read (lines 56-57).
WaterCall ==
    /\ pc = "idle"
    /\ \E zone \in WaterZones, now \in Clock :
       \E sensor_data \in {NoneArg, DictArg(<<>>)}
              \cup {DictArg(PrefixReadings(n, l, "mid")) :
                       n \in 0..Len(ParamOrder), l \in {"above", "far_above"}} :
         /\ pc' = "called"
         /\ call' = [analyzer |-> "water", zone |-> zone, sensor_data |-> sensor_data]
         /\ report' = [kind |-> "frame", now |-> now]
         /\ raised' = "none"
    /\ UNCHANGED shared

\* readings = sensor_data or self._simulate_sensor_readings(zone)
WaterReadings ==
    /\ pc = "called" /\ IsWaterCall
    /\ \E p \in Params, l \in Levels, turb \in InjectedTurbidity :
         LET readings == IF Truthy(call.sensor_data) THEN call.sensor_data.map
                         ELSE simulate_sensor_readings(call.zone, FamilyReadings("mid", p, l),
                                                       turb, 750000)
         IN  report' = [kind |-> "frame", now |-> report.now, readings |-> readings]
    /\ pc' = "simulate"
    /\ UNCHANGED <<call, raised>>
    /\ UNCHANGED shared

\* anomalies = self._detect_anomalies(readings)
WaterClassify ==
    /\ pc = "simulate" /\ IsWaterCall
    /\ pc' = "classify"
    /\ report' = [kind |-> "frame", now |-> report.now, readings |-> report.readings,
                  anomalies |-> detect_anomalies(report.readings)]
    /\ UNCHANGED <<call, raised>>
    /\ UNCHANGED shared

\* Variant: the score taken before the anomalies are detected.
WaterScore_BeforeClassify ==
    /\ pc = "simulate" /\ IsWaterCall
    /\ pc' = "score"
    /\ report' = [kind |-> "frame", now |-> report.now, readings |-> report.readings,
                  anomalies |-> <<>>, quality_score |-> compute_quality_score(<<>>)]
    /\ UNCHANGED <<call, raised>>
    /\ UNCHANGED shared

\* quality_score = self._compute_quality_score(readings, anomalies)
WaterScore ==
    /\ pc = "classify" /\ IsWaterCall
    /\ pc' = "score"
    /\ report' = [kind |-> "frame", now |-> report.now, readings |-> report.readings,
                  anomalies |-> report.anomalies,
                  quality_score |-> compute_quality_score(report.anomalies)]
    /\ UNCHANGED <<call, raised>>
    /\ UNCHANGED shared

\* self._treatment_recommendations(readings, anomalies, zone)
WaterRecommend ==
    /\ pc = "score" /\ IsWaterCall
    /\ pc' = "recommend"
    /\ report' = [kind |-> "frame", now |-> report.now, readings |-> report.readings,
                  anomalies |-> report.anomalies, quality_score |-> report.quality_score,
                  treatment_recommendations |->
                      treatment_recommendations(report.readings, report.anomalies)]
    /\ UNCHANGED <<call, raised>>
    /\ UNCHANGED shared

\* return {...}
WaterAssemble ==
    /\ pc = "recommend" /\ IsWaterCall
    /\ pc' = "done"
    /\ report' = water_report(call.zone, report.readings, report.now)
    /\ UNCHANGED <<call, raised>>
    /\ UNCHANGED shared

\* Draws of the flow noise and time labels of the staged footfall calls.
StageNoise == {0, 200}
StageTimes == {"morning", "night"}

\* analyze: entry, the label and the zone list are fixed (lines 49-58).  i is
\* the position in zones_to_analyze of the zone in hand.
FootfallCall ==
    /\ pc = "idle"
    /\ \E zone \in FootfallZoneArgs, time_of_day \in StageTimes :
         /\ pc' = "called"
         /\ call' = [analyzer |-> "footfall", zone |-> zone, time_of_day |-> time_of_day]
         /\ report' = [kind |-> "frame", time_label |-> time_of_day,
                       zones |-> zones_to_analyze(zone), i |-> 0,
                       noise |-> [z \in ZoneIds |-> 0],
                       conflict |-> [z \in ZoneIds |-> "None"]]
         /\ raised' = "none"
    /\ UNCHANGED shared

\* flow_data = self._simulate_flow(zid, time_label), for the next zone.
FootfallSimulate ==
    /\ pc \in {"called", "classify"} /\ IsFootfallCall
    /\ report.i < Len(report.zones)
    /\ \E n \in StageNoise :
         report' = [report EXCEPT !.i = @ + 1, !.noise[report.zones[report.i + 1]] = n]
    /\ pc' = "simulate"
    /\ UNCHANGED <<call, raised>>
    /\ UNCHANGED shared

\* utilization = flow_data["current_pph"] / z["capacity_pph"]
FootfallScore ==
    /\ pc = "simulate" /\ IsFootfallCall
    /\ pc' = "score"
    /\ UNCHANGED <<call, report, raised>>
    /\ UNCHANGED shared

\* is_clog, conflict_type and the zone's entries (lines 65-89).
FootfallClassify ==
    /\ pc = "score" /\ IsFootfallCall
    /\ LET zid == report.zones[report.i]
           pph == current_pph(zid, report.time_label, report.noise[zid])
       IN  IF has_conflict(zid, pph, CAMPUS_ZONES[zid].capacity_pph)
           THEN \E c \in Conflicts : report' = [report EXCEPT !.conflict[zid] = c]
           ELSE report' = report
    /\ pc' = "classify"
    /\ UNCHANGED <<call, raised>>
    /\ UNCHANGED shared

\* self._generate_recommendations(clog_points, zone_results), after the loop.
FootfallRecommend ==
    /\ pc = "classify" /\ IsFootfallCall
    /\ report.i = Len(report.zones)
    /\ pc' = "recommend"
    /\ UNCHANGED <<call, report, raised>>
    /\ UNCHANGED shared

\* return {...}
FootfallAssemble ==
    /\ pc = "recommend" /\ IsFootfallCall
    /\ pc' = "done"
    /\ report' = footfall_report(call.zone, report.time_label, report.noise, report.conflict)
    /\ UNCHANGED <<call, raised>>
    /\ UNCHANGED shared

StageNext ==
    \/ WaterCall
    \/ WaterReadings
    \/ WaterClassify
    \/ WaterScore
    \/ WaterRecommend
    \/ WaterAssemble
    \/ FootfallCall
    \/ FootfallSimulate
    \/ FootfallScore
    \/ FootfallClassify
    \/ FootfallRecommend
    \/ FootfallAssemble
    \/ Return

StageSpec == Init /\ [][StageNext]_vars

(***************************************************************************)
(* Concurrent callers.  Each thread runs one invocation at a time on the   *)
(* shared analyzer objects; a greenery invocation reads the plant catalog  *)
(* one entry per step, so that other threads' steps fall between its       *)
(* reads.                                                                  *)
(***************************************************************************)
\* Soil overrides of the concurrent greenery calls: every plant in range,
\* no plant above the cutoff, and a sample in between.
ConcSoils == {SoilDict(700, 600, 50), SoilDict(300, 100, Absent), SoilDict(850, 300, 1300)}

\* recommend: entry (lines 366-371).  i counts the catalog entries scored.
GreeneryEnter(t) ==
    /\ thread[t].pc = "idle"
    /\ \E soil \in ConcSoils, area_arg \in {0} :
         thread' = [thread EXCEPT ![t] =
                       [pc |-> "scoring", analyzer |-> "greenery", location |-> "Z4",
                        soil |-> soil, area_arg |-> area_arg, i |-> 0, scored |-> <<>>]]
    /\ UNCHANGED <<registry, fields>>
    /\ UNCHANGED single

\* Variant: the score is stored in the catalog's own entry, which is then
\* appended (no copy of the plant is made).
GreeneryScoreNext_MarksCatalog(t) ==
    /\ thread[t].pc = "scoring"
    /\ thread[t].i < Len(registry.PLANT_DATABASE)
    /\ LET f == thread[t]
           plant == registry.PLANT_DATABASE[f.i + 1]
           score == score_plant(plant, f.soil)
           entry == [id |-> plant.id, idx |-> f.i + 1, suitability_score |-> Round3(score)]
           marked == [k \in DOMAIN plant \cup {"suitability_score"} |->
                         IF k = "suitability_score" THEN Round3(score) ELSE plant[k]]
       IN  /\ thread' = [thread EXCEPT ![t] =
                            [f EXCEPT !.i = @ + 1,
                                      !.scored = IF PassesCutoff(score) THEN Append(@, entry) ELSE @]]
           /\ registry' = IF PassesCutoff(score)
                          THEN [registry EXCEPT !.PLANT_DATABASE[f.i + 1] = marked]
                          ELSE registry
    /\ UNCHANGED fields
    /\ UNCHANGED single

\* One pass of `for plant in PLANT_DATABASE` (lines 372-375): the entry is
\* read from the shared catalog, scored, and a copy of it is kept if it
\* passes the cutoff.
GreeneryScoreNext(t) ==
    /\ thread[t].pc = "scoring"
    /\ thread[t].i < Len(registry.PLANT_DATABASE)
    /\ LET f == thread[t]
           plant == registry.PLANT_DATABASE[f.i + 1]
           score == score_plant(plant, f.soil)
           entry == [id |-> plant.id, idx |-> f.i + 1, suitability_score |-> Round3(score)]
       IN  thread' = [thread EXCEPT ![t] =
                         [f EXCEPT !.i = @ + 1,
                                   !.scored = IF PassesCutoff(score) THEN Append(@, entry) ELSE @]]
    /\ UNCHANGED <<registry, fields>>
    /\ UNCHANGED single

\* The rest of recommend (lines 377-396): sort, cut, layout, the dict.
GreeneryComplete(t) ==
    /\ thread[t].pc = "scoring"
    /\ thread[t].i = Len(registry.PLANT_DATABASE)
    /\ LET f == thread[t]
           area == area_or_default(f.area_arg)
       IN  \E sorted \in {SortDesc(f.scored)} :
           \E top \in {SubSeq(sorted, 1, Min(TopK, Len(sorted)))} :
           \E layout \in {generate_layout(top, area)} :
              thread' = [thread EXCEPT ![t] =
                  [pc |-> "done", analyzer |-> "greenery", location |-> f.location,
                   soil |-> f.soil, area_arg |-> f.area_arg,
                   raised |-> IF MaintenanceRaises(top) THEN "IndexError" ELSE "none",
                   report |-> IF MaintenanceRaises(top) THEN NoReport
                              ELSE recommend_report(f.location, f.soil, area, top, layout)]]
    /\ UNCHANGED <<registry, fields>>
    /\ UNCHANGED single

\* A whole water call with a sensor override, on a thread.
ThreadWaterAnalyze(t) ==
    /\ thread[t].pc = "idle"
    /\ \E n \in 0..2, now \in Clock :
         thread' = [thread EXCEPT ![t] =
             [pc |-> "done", analyzer |-> "water", zone |-> "Z1",
              readings |-> PrefixReadings(n, "far_above", "mid"), now |-> now,
              raised |-> "none",
              report |-> water_report("Z1", PrefixReadings(n, "far_above", "mid"), now)]]
    /\ UNCHANGED <<registry, fields>>
    /\ UNCHANGED single

\* The caller of the thread takes the result.
ThreadReturn(t) ==
    /\ thread[t].pc = "done"
    /\ thread' = [thread EXCEPT ![t] = IdleThread]
    /\ UNCHANGED <<registry, fields>>
    /\ UNCHANGED single

ConcNext ==
    \E t \in Threads :
        \/ GreeneryEnter(t)
        \/ GreeneryScoreNext(t)
        \/ GreeneryComplete(t)
        \/ ThreadWaterAnalyze(t)
        \/ ThreadReturn(t)

ConcSpec == Init /\ [][ConcNext]_vars

(***************************************************************************)
(* Properties.                                                             *)
(***************************************************************************)
Done(analyzer) == pc = "done" /\ call.analyzer = analyzer
Returned(kind) == pc = "done" /\ report.kind = kind

SeqElems(s) == {s[i] : i \in 1..Len(s)}

\* C1: every analyzer entry point (space predict with hours > 0, footfall,
\* water, waste, greenery, parking) returns a report for every input; no
\* call ends in a raised exception.
C1_EveryCallReturnsReport ==
    (pc = "done" /\ ~(call.analyzer = "space" /\ call.hours <= 0))
        => (raised = "none" /\ report.kind = call.analyzer)

\* C2: for every forecast horizon H > 0, also beyond the 24 output steps,
\* the space report's hourly_forecast has exactly H entries, each occupancy
\* within [0, 1].
C2_ForecastHasHEntries ==
    (Returned("space") /\ call.hours > 0)
        => /\ Len(report.hourly_forecast) = call.hours
           /\ \A i \in 1..Len(report.hourly_forecast) :
                 0 <= report.hourly_forecast[i].occupancy
                    /\ report.hourly_forecast[i].occupancy <= F32One

\* The anomalies a water report holds for parameter k.
AnomaliesOf(k) == SelectSeq(report.anomalies, LAMBDA a : a.parameter = k)
HasSeverity(k, sev) == Len(AnomaliesOf(k)) = 1 /\ AnomaliesOf(k)[1].severity = sev
ThresholdedReadings == DOMAIN report.sensor_readings \cap Params

\* C3 as claimed: a reading on a bound raises no anomaly, a reading one
\* grid step outside either bound raises a WARNING, a reading below
\* 0.7 x low or above 1.5 x high raises a CRITICAL.
C3_Original ==
    Returned("water") =>
        \A k \in ThresholdedReadings :
            LET v == report.sensor_readings[k]
                low == THRESHOLDS[k][1]
                high == THRESHOLDS[k][2]
            IN  /\ (v = low \/ v = high) => AnomaliesOf(k) = <<>>
                /\ (v = low - 1 \/ v = high + 1) => HasSeverity(k, "WARNING")
                /\ (10 * v < 7 * low \/ 2 * v > 3 * high) => HasSeverity(k, "CRITICAL")

\* C3: a reading on a bound raises no anomaly; a reading outside the range
\* but not below 0.7 x low nor above 1.5 x high raises a WARNING (one grid
\* step above high always, one grid step below low when low > 0); a reading
\* below 0.7 x low or above 1.5 x high raises a CRITICAL, which for a lower
\* bound of 0 is every negative reading.
C3_BoundaryWarningCritical ==
    Returned("water") =>
        \A k \in ThresholdedReadings :
            LET v == report.sensor_readings[k]
                low == THRESHOLDS[k][1]
                high == THRESHOLDS[k][2]
                far == 10 * v < 7 * low \/ 2 * v > 3 * high
            IN  /\ (low <= v /\ v <= high) => AnomaliesOf(k) = <<>>
                /\ ((v < low \/ v > high) /\ ~far) => HasSeverity(k, "WARNING")
                /\ far => HasSeverity(k, "CRITICAL")
                /\ v = high + 1 => HasSeverity(k, "WARNING")
                /\ (v = low - 1 /\ low > 0) => HasSeverity(k, "WARNING")
                /\ (v < low /\ low = 0) => HasSeverity(k, "CRITICAL")

\* A water report with a reading on a bound, readings one step outside a
\* positive bound, and a reading one step below a lower bound of 0.
C3_Witness ==
    /\ Returned("water")
    /\ DOMAIN report.sensor_readings = Params
    /\ report.sensor_readings["turbidity_ntu"] = 0 - 1
    /\ HasSeverity("turbidity_ntu", "CRITICAL")
    /\ report.sensor_readings["ph"] = 6499
    /\ HasSeverity("ph", "WARNING")
    /\ report.sensor_readings["chlorine_ppm"] = 200
    /\ AnomaliesOf("chlorine_ppm") = <<>>

\* C4 as claimed: in every waste report with days >= 1 the reported
\* total_biogas_m3 equals the reported total_biodegradable_kg times 0.4.
C4_Original ==
    (Returned("waste") /\ call.days >= 1)
        => 10 * report.summary.total_biogas_m3 = 4 * report.summary.total_biodegradable_kg

\* C4: in every waste report with days >= 1 the reported total_biogas_m3
\* differs from 0.4 x the reported total_biodegradable_kg by less than 0.07
\* (each field is rounded to one decimal on its own).
C4_BiogasWithinRounding ==
    (Returned("waste") /\ call.days >= 1)
        => Abs(10 * report.summary.total_biogas_m3
               - 4 * report.summary.total_biodegradable_kg) < 7

\* A waste report whose two rounded fields are not in the exact ratio.
C4_Witness ==
    /\ Returned("waste")
    /\ call.days >= 1
    /\ 10 * report.summary.total_biogas_m3 # 4 * report.summary.total_biodegradable_kg

\* The position of a soil sample (absent attributes at their defaults 7.0,
\* 50, 50) with respect to a plant's three ranges, bounds inclusive.
Within(range, v) == range[1] <= v /\ v <= range[2]
PhIn(plant, soil) == Within(plant.ph_range, IF "ph" \in DOMAIN soil THEN soil["ph"] ELSE 700)
MoistureIn(plant, soil) ==
    Within(plant.moisture_range,
           IF "moisture_pct" \in DOMAIN soil THEN soil["moisture_pct"] ELSE 500)
NitrogenIn(plant, soil) ==
    Within(plant.nitrogen_range,
           IF "nitrogen_ppm" \in DOMAIN soil THEN soil["nitrogen_ppm"] ELSE 500)
AllOut(plant, soil) == ~PhIn(plant, soil) /\ ~MoistureIn(plant, soil) /\ ~NitrogenIn(plant, soil)
AllIn(plant, soil) == PhIn(plant, soil) /\ MoistureIn(plant, soil) /\ NitrogenIn(plant, soil)

RecommendedIds == {report.recommended_plants[i].id : i \in 1..Len(report.recommended_plants)}
Rank(id) == CHOOSE i \in 1..Len(report.recommended_plants) : report.recommended_plants[i].id = id

\* The double 0.09999999999999998 = 1.0 - 0.4 - 0.3 - 0.2.
FAllMissed == FMake(26843545, 161061272)

\* C5 as claimed: a plant whose pH, moisture and nitrogen checks all fail
\* scores 0 and is not in recommended_plants.
C5_Original ==
    Returned("greenery") =>
        \A i \in PlantIdx :
            AllOut(PLANT_DATABASE[i], call.soil)
                => /\ score_plant(PLANT_DATABASE[i], call.soil) = FZero
                   /\ PLANT_DATABASE[i].id \notin RecommendedIds

\* C5: a plant whose pH, moisture and nitrogen checks all fail scores
\* 1.0 - 0.4 - 0.3 - 0.2 (0.1 at three decimals, not 0) and is not in
\* recommended_plants.
C5_AllOutScoresTenth ==
    Done("greenery") =>
        \A i \in PlantIdx :
            AllOut(PLANT_DATABASE[i], call.soil)
                => /\ score_plant(PLANT_DATABASE[i], call.soil) = FAllMissed
                   /\ Round3(score_plant(PLANT_DATABASE[i], call.soil)) = 100
                   /\ Returned("greenery") => PLANT_DATABASE[i].id \notin RecommendedIds

\* A greenery report that recommends a plant while another plant of the
\* catalog fails all three checks.
C5_Witness ==
    /\ Returned("greenery")
    /\ report.recommended_plants # <<>>
    /\ \E i \in PlantIdx : AllOut(PLANT_DATABASE[i], call.soil)

\* C6 as claimed: a plant whose three attributes lie within its ranges
\* scores 1.0, is in recommended_plants, has no lower-scored plant before
\* it, and is first when it is the only plant scoring 1.0.
C6_Original ==
    Done("greenery") =>
        \A i \in PlantIdx :
            AllIn(PLANT_DATABASE[i], call.soil)
                => /\ score_plant(PLANT_DATABASE[i], call.soil) = FOne
                   /\ Returned("greenery")
                   /\ PLANT_DATABASE[i].id \in RecommendedIds

\* C6: a plant whose three attributes lie within its ranges (bounds
\* inclusive) scores 1.0 and the call returns a report; the plant is in
\* recommended_plants unless five plants earlier in the catalog also score
\* 1.0 and fill the list; when it is in the list no plant with a lower
\* score is ranked before it, and if it is the only plant scoring 1.0 it
\* is first.
C6_AllInScoresOne ==
    Done("greenery") =>
        \A i \in PlantIdx :
            AllIn(PLANT_DATABASE[i], call.soil)
                => /\ score_plant(PLANT_DATABASE[i], call.soil) = FOne
                   /\ Returned("greenery")
                   /\ \/ PLANT_DATABASE[i].id \in RecommendedIds
                      \/ /\ Len(report.recommended_plants) = 5
                         /\ \A k \in 1..5 :
                               /\ report.recommended_plants[k].suitability_score = 1000
                               /\ \E j \in 1..(i - 1) :
                                     /\ PLANT_DATABASE[j].id = report.recommended_plants[k].id
                                     /\ AllIn(PLANT_DATABASE[j], call.soil)
                   /\ PLANT_DATABASE[i].id \in RecommendedIds
                        => /\ report.recommended_plants[Rank(PLANT_DATABASE[i].id)].suitability_score = 1000
                           /\ \A k \in 1..(Rank(PLANT_DATABASE[i].id) - 1) :
                                 report.recommended_plants[k].suitability_score = 1000
                           /\ (\A j \in PlantIdx \ {i} : ~AllIn(PLANT_DATABASE[j], call.soil))
                                 => Rank(PLANT_DATABASE[i].id) = 1

\* A greenery report in which a plant within all its ranges (on a bound of
\* one of them) is the only plant scoring 1.0 and is listed first after
\* lower-scored plants of the catalog.
C6_Witness ==
    /\ Returned("greenery")
    /\ \E i \in PlantIdx :
          /\ i > 1
          /\ AllIn(PLANT_DATABASE[i], call.soil)
          /\ "ph" \in DOMAIN call.soil
          /\ call.soil["ph"] = PLANT_DATABASE[i].ph_range[2]
          /\ \A j \in PlantIdx \ {i} : ~AllIn(PLANT_DATABASE[j], call.soil)
          /\ report.recommended_plants[1].id = PLANT_DATABASE[i].id
          /\ Len(report.recommended_plants) > 1

\* The penalties of the checks a plant misses, in thousandths.
Misses(plant, soil) ==
    (IF ~PhIn(plant, soil) THEN 400 ELSE 0)
    + (IF ~MoistureIn(plant, soil) THEN 300 ELSE 0)
    + (IF ~NitrogenIn(plant, soil) THEN 200 ELSE 0)

\* The plants whose raw score is not below the double 0.4.
AtLeastCutoff(soil) == {i \in PlantIdx : ~FLess(score_plant(PLANT_DATABASE[i], soil), F04)}

\* C7: each missed check subtracts its penalty (0.4, 0.3, 0.2) from 1.0,
\* floored at 0; a plant passes the cutoff exactly when its score is not
\* below 0.4; the recommended list holds only such plants, in
\* non-increasing score order, at most 5 of them, all of them when there
\* are at most 5, and otherwise none that scores below a plant left out.
C7_PenaltiesCutoffOrder ==
    Done("greenery") =>
        /\ \A i \in PlantIdx :
              Round3(score_plant(PLANT_DATABASE[i], call.soil))
                 = Max(0, 1000 - Misses(PLANT_DATABASE[i], call.soil))
        /\ Returned("greenery") =>
              LET rec == report.recommended_plants
                  idOf(i) == PLANT_DATABASE[i].id
                  shown(i) == Round3(score_plant(PLANT_DATABASE[i], call.soil))
              IN  /\ RecommendedIds \subseteq {idOf(i) : i \in AtLeastCutoff(call.soil)}
                  /\ Len(rec) = Min(5, Cardinality(AtLeastCutoff(call.soil)))
                  /\ Cardinality(RecommendedIds) = Len(rec)
                  /\ \A k \in 1..Len(rec) : \A i \in PlantIdx :
                        idOf(i) = rec[k].id => rec[k].suitability_score = shown(i)
                  /\ \A k \in 1..(Len(rec) - 1) :
                        rec[k].suitability_score >= rec[k + 1].suitability_score
                  /\ \A i \in AtLeastCutoff(call.soil) :
                        idOf(i) \notin RecommendedIds
                           => \A k \in 1..Len(rec) : rec[k].suitability_score >= shown(i)

\* A greenery report for a soil on which one plant misses pH and nitrogen
\* only (raw score 0.39999999999999997, shown as 0.4) and is left out,
\* while a plant missing moisture and nitrogen (0.5) is listed.
C7_Witness ==
    /\ Returned("greenery")
    /\ \E i \in PlantIdx :
          /\ Misses(PLANT_DATABASE[i], call.soil) = 600
          /\ ~PhIn(PLANT_DATABASE[i], call.soil)
          /\ MoistureIn(PLANT_DATABASE[i], call.soil)
          /\ PLANT_DATABASE[i].id \notin RecommendedIds
    /\ \E i \in PlantIdx :
          /\ Misses(PLANT_DATABASE[i], call.soil) = 500
          /\ PLANT_DATABASE[i].id \in RecommendedIds

\* C8: for every lot of a parking report, current_occupied is within
\* [0, capacity] and current_available = capacity - current_occupied; lot
\* P1 (capacity 500) is FULL iff available < 10, BUSY iff
\* 10 <= available < 100, and AVAILABLE otherwise.
C8_ParkingLotInvariant ==
    Returned("parking") =>
        /\ \A l \in DOMAIN report.lots :
              /\ 0 <= report.lots[l].current_occupied
              /\ report.lots[l].current_occupied <= report.lots[l].capacity
              /\ report.lots[l].current_available
                    = report.lots[l].capacity - report.lots[l].current_occupied
        /\ "P1" \in DOMAIN report.lots =>
              LET a == report.lots["P1"].current_available
                  st == report.lots["P1"].status
              IN  /\ report.lots["P1"].capacity = 500
                  /\ st \in {"FULL", "BUSY", "AVAILABLE"}
                  /\ st = "FULL" <=> a < 10
                  /\ st = "BUSY" <=> (10 <= a /\ a < 100)
                  /\ st = "AVAILABLE" <=> a >= 100

\* A parking report with lot P1 at 10 free slots (BUSY) and another lot
\* emptied by the clamp.
C8_Witness ==
    /\ Returned("parking")
    /\ DOMAIN report.lots = LotIds
    /\ report.lots["P1"].current_available = 10
    /\ report.lots["P1"].status = "BUSY"
    /\ \E l \in LotIds : report.lots[l].current_occupied = 0

\* C9: every bounded score is within its bound: the water quality_score
\* within [0, 100], every greenery suitability_score within [0, 1], every
\* parking occupancy_rate (lot, forecast, campus) within [0, 1].
C9_ScoresWithinBounds ==
    /\ Returned("water") => (0 <= report.quality_score /\ report.quality_score <= 100)
    /\ Returned("greenery") =>
          \A k \in 1..Len(report.recommended_plants) :
              /\ 0 <= report.recommended_plants[k].suitability_score
              /\ report.recommended_plants[k].suitability_score <= 1000
    /\ Returned("parking") =>
          /\ 0 <= report.campus_summary.occupancy_rate
          /\ report.campus_summary.occupancy_rate <= 1000
          /\ \A l \in DOMAIN report.lots :
                /\ 0 <= report.lots[l].occupancy_rate
                /\ report.lots[l].occupancy_rate <= 1000
                /\ \A h \in 1..Len(report.lots[l].forecast) :
                      /\ 0 <= report.lots[l].forecast[h].occupancy_rate
                      /\ report.lots[l].forecast[h].occupancy_rate <= 1000

\* A water report with seven CRITICAL anomalies (penalties of 105 in all),
\* scored 0.
C9_Witness ==
    /\ Returned("water")
    /\ Len(report.anomalies) = 7
    /\ \A i \in 1..7 : report.anomalies[i].severity = "CRITICAL"
    /\ report.quality_score = 0

\* C10: every water report whose turbidity reading exceeds 6.0 NTU holds an
\* anomaly with parameter turbidity_ntu and severity CRITICAL, and its
\* treatment_recommendations hold the turbidity (filter) message.
C10_TurbidityCritical ==
    (Returned("water")
       /\ "turbidity_ntu" \in DOMAIN report.sensor_readings
       /\ report.sensor_readings["turbidity_ntu"] > 6000)
        => /\ \E i \in 1..Len(report.anomalies) :
                 /\ report.anomalies[i].parameter = "turbidity_ntu"
                 /\ report.anomalies[i].severity = "CRITICAL"
           /\ "turbidity: install multimedia sand filter"
                 \in SeqElems(report.treatment_recommendations)

\* The water report of zone Z4 with simulated turbidity 9.0 NTU.
C10_Witness ==
    /\ Returned("water")
    /\ call.zone = "Z4"
    /\ ~call.sensor_data.given
    /\ report.sensor_readings["turbidity_ntu"] = 9000
    /\ "turbidity: install multimedia sand filter" \in SeqElems(report.treatment_recommendations)

\* C11: for each registry-backed analyzer (waste areas, footfall zones,
\* parking lots, water zones) a call with an identifier that is not in the
\* registry returns a populated report built from the campus-wide or default
\* profile: the waste report uses the campus_wide profile, the footfall
\* report covers every campus zone, the parking report holds at least one
\* lot, the water report holds its readings under the identifier itself.
C11_UnknownIdFallsBack ==
    /\ (Done("waste") /\ NormalizedArea[call.area] \notin DOMAIN AREA_PROFILES)
          => /\ Returned("waste")
             /\ report.summary.biodegradable_percentage
                   = AREA_PROFILES["campus_wide"].biodegradable_pct * 10
             /\ Len(report.daily_forecasts) = call.days
    /\ (Done("footfall") /\ call.zone \notin ZoneIds \cup {"all"})
          => /\ Returned("footfall")
             /\ DOMAIN report.zone_details = ZoneIds
    /\ (Done("parking") /\ call.lot_id \notin LotIds \cup {"all"})
          => /\ Returned("parking")
             /\ DOMAIN report.lots # {}
             /\ report.campus_summary.total_capacity > 0
    /\ (Done("water") /\ call.zone \notin DOMAIN ZONES)
          => /\ Returned("water")
             /\ report.zone_name = call.zone
             /\ DOMAIN report.sensor_readings # {}

\* C11 without the parking predictor: the three analyzers that do fall back.
C11_FallbackElsewhere ==
    /\ (Done("waste") /\ NormalizedArea[call.area] \notin DOMAIN AREA_PROFILES)
          => /\ Returned("waste")
             /\ report.summary.biodegradable_percentage
                   = AREA_PROFILES["campus_wide"].biodegradable_pct * 10
    /\ (Done("footfall") /\ call.zone \notin ZoneIds \cup {"all"})
          => /\ Returned("footfall")
             /\ DOMAIN report.zone_details = ZoneIds
    /\ (Done("water") /\ call.zone \notin DOMAIN ZONES)
          => /\ Returned("water")
             /\ report.zone_name = call.zone
             /\ DOMAIN report.sensor_readings # {}

\* The parking report of a lot that is not in LOTS: no lot, no capacity.
C11_EmptyParkingReport ==
    /\ Returned("parking")
    /\ call.lot_id \notin LotIds \cup {"all"}
    /\ DOMAIN report.lots = {}
    /\ report.campus_summary.total_capacity = 0

\* The override map of a water call that passed one (a non-empty dict).
OverrideMap == call.sensor_data.map
OverrideGiven == Done("water") /\ Truthy(call.sensor_data)

\* The thresholded parameters of the override whose value is outside the
\* parameter's range.
OverrideOutside ==
    {k \in DOMAIN OverrideMap \cap DOMAIN THRESHOLDS :
        OverrideMap[k] < THRESHOLDS[k][1] \/ OverrideMap[k] > THRESHOLDS[k][2]}

\* The quality score the report's anomalies would give without those of k.
ScoreWithout(k) ==
    compute_quality_score(SelectSeq(report.anomalies, LAMBDA a : a.parameter # k))

\* C12: a water call with a sensor override map is never rejected, and each
\* thresholded parameter whose override value lies outside its range
\* produces exactly one anomaly record, carrying that value, and lowers
\* quality_score (the score is below what the other anomalies alone give).
C12_OutsideOverrideScored ==
    OverrideGiven
        => /\ Returned("water") /\ raised = "none"
           /\ \A k \in OverrideOutside :
                 /\ Len(AnomaliesOf(k)) = 1
                 /\ AnomaliesOf(k)[1].value = OverrideMap[k]
                 /\ report.quality_score < ScoreWithout(k)

\* An override with all seven parameters outside their ranges, pH below its
\* lower bound: seven anomalies, one per parameter.
C12_Witness ==
    /\ OverrideGiven
    /\ Returned("water")
    /\ OverrideOutside = Params
    /\ OverrideMap["ph"] < THRESHOLDS["ph"][1]
    /\ Len(report.anomalies) = 7

\* C13: whenever a sensor override map is passed to water analyze, the empty
\* map included, no reading is simulated: the report's sensor_readings is
\* exactly the map passed.
C13_OverrideBypassesSimulation ==
    (Done("water") /\ call.sensor_data.given)
        => /\ Returned("water")
           /\ report.sensor_readings = call.sensor_data.map

\* C13 for the non-empty maps alone.
C13_NonEmptyOverrideKept ==
    OverrideGiven
        => /\ Returned("water")
           /\ report.sensor_readings = OverrideMap

\* The call analyze(zone, {}): the report holds seven simulated readings.
C13_EmptyOverrideSimulated ==
    /\ Done("water")
    /\ call.sensor_data.given
    /\ DOMAIN call.sensor_data.map = {}
    /\ DOMAIN report.sensor_readings = Params

\* C14: in every water report risk_level is HIGH iff at least 3 anomalies
\* were detected, MEDIUM iff 1 or 2 were, LOW iff none was.
C14_RiskLevelByAnomalyCount ==
    Returned("water")
        => LET n == Len(report.anomalies)
           IN  /\ report.anomalies_detected = n
               /\ report.risk_level = "HIGH" <=> n >= 3
               /\ report.risk_level = "MEDIUM" <=> n \in {1, 2}
               /\ report.risk_level = "LOW" <=> n = 0

\* A water report with exactly three anomalies, rated HIGH.
C14_Witness ==
    /\ Returned("water")
    /\ Len(report.anomalies) = 3
    /\ report.risk_level = "HIGH"

\* The number of anomalies of a water report with the given severity.
SeverityCount(sev) == Len(SelectSeq(report.anomalies, LAMBDA a : a.severity = sev))

\* C15: in every water report the quality_score is 100 minus 15 per CRITICAL
\* and 7 per WARNING anomaly, clamped to [0, 100], and the quality_grade
\* letter follows the bands: >= 90 A, 75..89 B, 60..74 C, 40..59 D, below
\* 40 F, one grade for each score.
C15_GradeBands ==
    Returned("water")
        => LET sc == report.quality_score
               g == report.quality_grade
           IN  /\ sc = Max(0, Min(100, 100 - 15 * SeverityCount("CRITICAL")
                                          - 7 * SeverityCount("WARNING")))
               /\ g \in {"A", "B", "C", "D", "F"}
               /\ g = "A" <=> sc >= 90
               /\ g = "B" <=> (75 <= sc /\ sc < 90)
               /\ g = "C" <=> (60 <= sc /\ sc < 75)
               /\ g = "D" <=> (40 <= sc /\ sc < 60)
               /\ g = "F" <=> sc < 40

\* A water report with four CRITICAL anomalies: score 40, on the lower edge
\* of band D.
C15_Witness ==
    /\ Returned("water")
    /\ SeverityCount("CRITICAL") = 4
    /\ report.quality_score = 40
    /\ report.quality_grade = "D"

\* The reports in which no conditional recommendation rule fires.
NoWaterRuleFires ==
    /\ Returned("water")
    /\ \A i \in 1..Len(report.anomalies) :
          report.anomalies[i].parameter
              \notin {"ph", "turbidity_ntu", "tds_ppm", "chlorine_ppm"}
NoFootfallRuleFires == Returned("footfall") /\ report.clog_points = <<>>
NoParkingRuleFires ==
    /\ Returned("parking")
    /\ \A l \in DOMAIN report.lots : report.lots[l].status # "FULL"
NoSpaceRuleFires ==
    /\ Returned("space")
    /\ report.peak_occupancy <= 15099494
    /\ ~MeanAbove(report.average_occupancy, 12582912, 0)
    /\ ~(report.space_type \in {"classroom", "lab"}
           /\ MeanBelow(report.average_occupancy, 6710886, 4))
    /\ report.space_type # "parking"

\* The positive-status messages of the generators.
PositiveStatus ==
    {"all parameters within acceptable range", [msg |-> "no critical clog points"]}

\* C16 as claimed: in each of the four recommendation generators, when no
\* conditional rule fires the list returned is one positive-status message
\* and nothing else.
C16_Original ==
    /\ NoWaterRuleFires
          => /\ Len(report.treatment_recommendations) = 1
             /\ report.treatment_recommendations[1] \in PositiveStatus
    /\ NoFootfallRuleFires
          => /\ Len(report.recommendations) = 1
             /\ report.recommendations[1] \in PositiveStatus
    /\ NoParkingRuleFires
          => /\ Len(report.recommendations) = 1
             /\ report.recommendations[1] \in PositiveStatus
    /\ NoSpaceRuleFires
          => /\ Len(report.recommendations) = 1
             /\ report.recommendations[1] \in PositiveStatus

\* C16, amended: when no conditional rule fires, the water treatment list is
\* the single positive-status message; the footfall list is the
\* positive-status message followed by the two standing recommendations;
\* the parking list is its two standing recommendations and the space list
\* its one standing message, neither with a positive-status message.
C16_NoRuleFiresLists ==
    /\ NoWaterRuleFires
          => report.treatment_recommendations = <<"all parameters within acceptable range">>
    /\ NoFootfallRuleFires
          => report.recommendations
                = <<[msg |-> "no critical clog points"], [msg |-> "stagger class timings"],
                    [msg |-> "install footfall counters"]>>
    /\ NoParkingRuleFires
          => report.recommendations
                = <<[msg |-> "enable dynamic slot display"],
                    [msg |-> "add EV charging and cycle parking"]>>
    /\ NoSpaceRuleFires
          => report.recommendations = <<"prediction generated on device">>

\* A water report whose one anomaly (pressure) has no treatment rule: the
\* list is the positive-status message alone.
C16_Witness ==
    /\ NoWaterRuleFires
    /\ Len(report.anomalies) = 1
    /\ report.anomalies[1].parameter = "pressure_bar"
    /\ report.treatment_recommendations = <<"all parameters within acceptable range">>

\* C17: each recommendation generator is deterministic: two runs on
\* identical inputs return identical lists (a relation between two runs of
\* a generator; no formula is stated for it).

StageRank == [called |-> 0, simulate |-> 1, score |-> 2, classify |-> 3,
              recommend |-> 4, done |-> 5]

InInvocation == pc \in DOMAIN StageRank /\ pc # "done"

\* C19 as claimed: every invocation runs simulate, score, classify,
\* recommend, assemble in that order, each stage once, no stage re-entered
\* after a later one has started, and the score is taken before any
\* classification output exists.
C19_Original ==
    [][InInvocation
          => /\ pc' \in DOMAIN StageRank
             /\ StageRank[pc'] = StageRank[pc] + 1
             /\ pc' = "score" => "anomalies" \notin DOMAIN report']_vars

\* The stage that may follow each stage, per analyzer.
WaterFollows == [called |-> "simulate", simulate |-> "classify", classify |-> "score",
                 score |-> "recommend", recommend |-> "done"]
FootfallFollows == [called |-> "simulate", simulate |-> "score", score |-> "classify",
                    recommend |-> "done"]

\* C19, amended: a water invocation runs read or simulate signals, classify
\* anomalies, score (from the anomaly list), generate recommendations,
\* assemble, each once and in that order; a footfall invocation runs
\* simulate, score, classify once per zone analysed, in that order, going
\* back to simulate while zones remain, then generates recommendations once
\* and assembles once.  No invocation goes back from recommend or assemble.
C19_StageOrder ==
    [][InInvocation
          => /\ call' = call
             /\ IsWaterCall
                   => /\ pc' = WaterFollows[pc]
                      /\ pc' = "score" => report'.quality_score
                                             = compute_quality_score(report.anomalies)
             /\ IsFootfallCall
                   => IF pc = "classify"
                      THEN IF report.i < Len(report.zones)
                           THEN pc' = "simulate" /\ report'.i = report.i + 1
                           ELSE pc' = "recommend"
                      ELSE pc' = FootfallFollows[pc]]_vars

\* A water invocation that has just scored, from a non-empty anomaly list;
\* nothing is recommended yet.
C19_Witness ==
    /\ pc = "score" /\ IsWaterCall
    /\ Len(report.anomalies) >= 1
    /\ report.quality_score < 100
    /\ "treatment_recommendations" \notin DOMAIN report

\* A footfall invocation back in simulate for its second zone.
C19_SecondZoneSimulated ==
    /\ pc = "simulate" /\ IsFootfallCall
    /\ report.i = 2

\* What a greenery call on its own returns for the inputs of thread t: the
\* report, or the exception.
AloneResult(t) ==
    LET f == thread[t]
        area == area_or_default(f.area_arg)
        top == top_plants(f.soil)
    IN  IF MaintenanceRaises(top)
        THEN [raised |-> "IndexError", report |-> NoReport]
        ELSE [raised |-> "none",
              report |-> recommend_report(f.location, f.soil, area, top,
                                          generate_layout(top, area))]

\* C20: under any interleaving of concurrent invocations no static registry
\* and no instance field is ever written, and every finished greenery
\* invocation holds the result its own inputs give when it runs alone.
C20_NoSharedWrites ==
    /\ registry = Registries
    /\ fields = InstanceFields
    /\ \A t \in Threads :
          (thread[t].pc = "done" /\ thread[t].analyzer = "greenery")
              => /\ thread[t].raised = AloneResult(t).raised
                 /\ thread[t].report = AloneResult(t).report

\* Two greenery invocations on different soils under way at once, one
\* finished with a report, the other part-way through the catalog.
C20_Witness ==
    \E t, u \in Threads :
        /\ t # u
        /\ thread[t].pc = "done" /\ thread[t].analyzer = "greenery"
        /\ thread[t].raised = "none"
        /\ Len(thread[t].report.recommended_plants) = TopK
        /\ thread[u].pc = "scoring"
        /\ thread[u].i = 3
        /\ thread[u].soil # thread[t].soil

(***************************************************************************)
(* C21: for every soil sample the soil simulator can draw, recommend       *)
(* returns a report whose recommended_plants list is not empty, and every  *)
(* entry of the list carries a suitability_score.                          *)
(***************************************************************************)
SimulatedSoil ==
    /\ Done("greenery")
    /\ ~Truthy(call.soil_data)

C21_SimulatedSoilRecommends ==
    SimulatedSoil =>
        /\ raised = "none"
        /\ Returned("greenery")
        /\ Len(report.recommended_plants) >= 1
        /\ \A k \in 1..Len(report.recommended_plants) :
              /\ "suitability_score" \in DOMAIN report.recommended_plants[k]
              /\ report.recommended_plants[k].suitability_score > 400

\* The most acid, driest, nitrogen-richest draw: three plants pass the cutoff.
C21_Witness ==
    /\ SimulatedSoil
    /\ call.soil = SoilDict(580, 300, 1100)
    /\ Returned("greenery")
    /\ Len(report.recommended_plants) = 3

(***************************************************************************)
(* C22: in every footfall report a zone is in clog_points exactly when its *)
(* current_pph / capacity_pph exceeds 0.85; its severity is CRITICAL when  *)
(* the ratio exceeds 1.0 and HIGH otherwise; clog_points_detected is the   *)
(* length of clog_points and the number of zone_details entries whose      *)
(* is_clog_point is true.                                                  *)
(***************************************************************************)
ClogZones(r) == {r.clog_points[i].zone : i \in 1..Len(r.clog_points)}

C22_ClogPointsMatchUtilization ==
    Returned("footfall") =>
        /\ ClogZones(report) \subseteq DOMAIN report.zone_details
        /\ \A z \in DOMAIN report.zone_details :
              LET d == report.zone_details[z]
                  over == 100 * d.current_pph > 85 * d.capacity_pph
              IN  /\ (z \in ClogZones(report)) <=> over
                  /\ d.is_clog_point <=> over
        /\ \A i \in 1..Len(report.clog_points) :
              LET d == report.zone_details[report.clog_points[i].zone]
              IN  report.clog_points[i].severity =
                      IF d.current_pph > d.capacity_pph THEN "CRITICAL" ELSE "HIGH"
        /\ report.clog_points_detected = Len(report.clog_points)
        /\ report.clog_points_detected =
              Cardinality({z \in DOMAIN report.zone_details : report.zone_details[z].is_clog_point})

\* A report with a CRITICAL clog point and a zone at exactly 0.85 of its
\* capacity that is no clog point.
C22_Witness ==
    /\ Returned("footfall")
    /\ \E i \in 1..Len(report.clog_points) : report.clog_points[i].severity = "CRITICAL"
    /\ \E z \in DOMAIN report.zone_details :
          /\ 100 * report.zone_details[z].current_pph = 85 * report.zone_details[z].capacity_pph
          /\ z \notin ClogZones(report)

(***************************************************************************)
(* C23: in every space forecast report, current_occupancy is the first     *)
(* forecast entry, peak_occupancy is the maximum and low_occupancy the     *)
(* minimum of the forecast entries, low_occupancy <= average_occupancy <=  *)
(* peak_occupancy, and peak_time / low_time are the timestamps of entries  *)
(* holding the maximum / minimum.                                          *)
(***************************************************************************)
Occupancies(r) == {r.hourly_forecast[i].occupancy : i \in 1..Len(r.hourly_forecast)}

\* The extremes and their times.
C23_ExtremesAndTimes ==
    Returned("space") =>
        /\ report.current_occupancy = report.hourly_forecast[1].occupancy
        /\ report.peak_occupancy \in Occupancies(report)
        /\ report.low_occupancy \in Occupancies(report)
        /\ \A v \in Occupancies(report) : report.low_occupancy <= v /\ v <= report.peak_occupancy
        /\ \E i \in 1..Len(report.hourly_forecast) :
              /\ report.hourly_forecast[i].time = report.peak_time
              /\ report.hourly_forecast[i].occupancy = report.peak_occupancy
        /\ \E i \in 1..Len(report.hourly_forecast) :
              /\ report.hourly_forecast[i].time = report.low_time
              /\ report.hourly_forecast[i].occupancy = report.low_occupancy

\* The average lies between the extremes.
C23_AverageBetweenExtremes ==
    Returned("space") =>
        /\ report.low_occupancy * report.average_occupancy.den <= report.average_occupancy.num
        /\ report.average_occupancy.num <= report.peak_occupancy * report.average_occupancy.den

C23_SpaceReportSummary == C23_ExtremesAndTimes /\ C23_AverageBetweenExtremes

(***************************************************************************)
(* C24: the constructors of WaterAnalyzer and FootfallAnalyzer succeed     *)
(* whether or not the optional detector library loads, and set             *)
(* has_detector accordingly; every later analyze call returns a report of  *)
(* its kind, and the report is the one the same call (same arguments,      *)
(* same draws, same instant) gets from an instance whose has_detector is   *)
(* the opposite.                                                           *)
(***************************************************************************)
Twin(self) == [self EXCEPT !.has_detector = ~self.has_detector]

AllClear == "all parameters within acceptable range"

C25_AllClearOnlyWithoutAnomalies ==
    Returned("water") =>
        /\ (AllClear \in SeqElems(report.treatment_recommendations))
              <=> (report.anomalies = <<>>)
        /\ (report.anomalies = <<>>)
              <=> (/\ report.risk_level = "LOW"
                   /\ \A k \in DOMAIN report.parameter_status :
                         report.parameter_status[k] = "OK")

(***************************************************************************)
(* C26: for every area profile and every forecast day of a waste report,   *)
(* biodegradable_kg + recyclable_kg + residual_kg does not exceed          *)
(* total_waste_kg, up to the rounding of the four figures to one decimal   *)
(* (half a tenth each).                                                    *)
(***************************************************************************)
StreamsOf(day) == day.biodegradable_kg + day.recyclable_kg + day.residual_kg

C26_StreamsWithinTotal ==
    Returned("waste") =>
        \A d \in 1..Len(report.daily_forecasts) :
            StreamsOf(report.daily_forecasts[d]) <= report.daily_forecasts[d].total_waste_kg + 2

(***************************************************************************)
(* C27: for every target area and every list of recommended plants, the    *)
(* planting_layout fits the area: the area_covered_sqm of its entries add  *)
(* up to at most area_sqm (their rounding to one decimal allowed for), and *)
(* the remaining area tracked while the plants are laid out never goes     *)
(* negative.                                                               *)
(***************************************************************************)
CoveredTenths(layout) == SeqSum([k \in 1..Len(layout) |-> layout[k].area_covered_sqm])

C27_LayoutFitsArea ==
    Returned("greenery") =>
        /\ CoveredTenths(report.planting_layout) <= report.area_sqm * 10 + 2
        /\ \A k \in 1..Len(report.planting_layout) :
              report.planting_layout[k].remaining_after >= 0

(***************************************************************************)
(* C28: after any sequence of sends, a send issued while an earlier reply  *)
(* is pending included, every assistant reply in the message log stands    *)
(* immediately after the user message it answers; a message with empty     *)
(* text appends nothing; and once no reply is pending the log holds the    *)
(* greeting and exactly one reply per user message.                        *)
(***************************************************************************)
RepliesTo(n) == {i \in 1..Len(chat.messages) :
                    chat.messages[i].role = "assistant" /\ chat.messages[i].send = n}
SentIds == {chat.messages[i].send : i \in {j \in 1..Len(chat.messages) :
                                              chat.messages[j].role = "user"}}

C28_RepliesFollow ==
    \A i \in 2..Len(chat.messages) :
        chat.messages[i].role = "assistant"
            => /\ chat.messages[i - 1].role = "user"
               /\ chat.messages[i - 1].send = chat.messages[i].send

C28_EmptyAppendsNothing ==
    \A i \in 1..Len(chat.messages) : chat.messages[i].content # ""

C28_OneReplyEach ==
    /\ chat.messages[1] = Greeting
    /\ \A n \in SentIds : Cardinality(RepliesTo(n)) <= 1
    /\ chat.timers = <<>> =>
          /\ \A n \in SentIds : Cardinality(RepliesTo(n)) = 1
          /\ Len(chat.messages) = 1 + 2 * Cardinality(SentIds)

C28_LogPairsInOrder == C28_RepliesFollow /\ C28_EmptyAppendsNothing /\ C28_OneReplyEach

(***************************************************************************)
(* C29: under every interleaving of overlapping sends, loading is true in  *)
(* every state in which some sent user message has no reply yet, and false *)
(* only when no reply is outstanding.                                      *)
(***************************************************************************)
Outstanding == {n \in SentIds : RepliesTo(n) = {}}

C29_LoadingWhileOutstanding == chat.loading <=> (Outstanding # {})
====
